---- MODULE Spec2Model ----
(***************************************************************************)
(* Punishment scheduling and lifecycle of the Canadian Helper bot:         *)
(* the JSON store of data_manager.py, the timers, sweep and startup        *)
(* restoration of events.py, and the commands of commands.py that create,  *)
(* extend, reduce, release, retract and delete a punishment.               *)
(*                                                                         *)
(* Time is a small integer clock that starts at 1.  None is NULL.  The      *)
(* timers, the sweep and the startup restoration are cut at the awaits     *)
(* that wait for the platform (asyncio.sleep, fetch_member, remove_roles,  *)
(* member.send, unban); what runs between two of them is one action, and   *)
(* the restoration is one action per row.  A slash command is handled in   *)
(* one action.  A platform call takes effect when it is issued, and        *)
(* member.roles reads the platform's current state.  The guild and the     *)
(* Canada role exist; a banned user is not a member.  An iteration of the  *)
(* sweep may raise outside its per-record handling.                        *)
(*                                                                         *)
(* The conversions of durations of utils.py and the automatic punishment   *)
(* of data_manager.py work on texts, which are sequences of characters;    *)
(* they are applied to inputs of their own in the specification Convert.   *)
(***************************************************************************)
EXTENDS Integers, Sequences, FiniteSets, TLC

NULL == -1

ALLOWED_GUILD_ID == 1

Users == {1}

\* Punishment durations a moderator may enter, in clock units.
Durations == {0, 1}

MaxTime == 3
MaxLogs == 2
MaxTasks == 2
MaxCommands == 3

Max(S) == CHOOSE x \in S : \A y \in S : y <= x
Min(S) == CHOOSE x \in S : \A y \in S : x <= y

VARIABLES
    now,                \* datetime.now(timezone.utc).timestamp()
    logs,               \* data["logs"] of LOGS_FILE
    next_log_id,        \* data["next_log_id"] of LOGS_FILE
    allocated,          \* history: the log_number of every create_log of the
                        \* guild so far, in order
    hasRole,            \* platform: canada_role in member.roles
    tasks,              \* the asyncio tasks created by schedule_role_removal
    scheduled_removals, \* events.scheduled_removals: user id -> task
    sweepPc,            \* position of cleanup_expired_punishments
    sweepList,          \* its expired_punishments still to visit
    sweepBans,          \* the expired bans cleanup_expired_temp_bans
                        \* has still to visit
    restorePc,          \* position of on_ready's restoration
    restoreRows,        \* rows of restore_active_punishments still to visit
    banned,             \* platform: the guild's bans
    temp_bans,          \* data["temp_bans"] of TEMP_BANS_FILE
    unbanTasks,         \* the asyncio tasks created by schedule_temp_unban
    scheduled_unbans,   \* events.scheduled_unbans: user id -> task
    commands,           \* moderator commands handled so far
    rearms,             \* history: the /extend and /reduce commands handled
                        \* since the last /canada
    roleAudit,          \* platform: the audit log's entries on the user's
                        \* Canada role, from the last grant on
    banAudit,           \* platform: the audit log's entries on the user's
                        \* ban, from the last ban on
    convertPc,          \* position of a conversion of durations
    seconds,            \* the argument of format_duration
    duration_str,       \* its result, the argument of parse_time_duration
    parsed,             \* the result of parse_time_duration(duration_str)
    reformatted,        \* format_duration(parsed)
    base_time_str,      \* punishment config: the rule's base_times entry
    per_prior_str,      \* punishment config: its per_prior_offense entry
    actual_punishment,  \* the result of calculate_automatic_punishment
    actual_seconds,     \* parse_time_duration(actual_punishment) of canada
    rule_violation,     \* the rule violation text a moderator has entered
    temp_ban_rules,     \* punishment config: "temp_ban_rules"
    suggestion,         \* the result of check_temp_ban_applicable
    files,              \* the disk: path -> content of the file
    file_lock,          \* data_manager.file_lock
    filePc,             \* position of a store operation on ROLES_FILE
    data,               \* its local variable data
    call                \* the store operation last called

botVars == <<now, logs, next_log_id, allocated, hasRole, tasks,
             scheduled_removals, sweepPc, sweepList, sweepBans, restorePc,
             restoreRows, banned, temp_bans, unbanTasks, scheduled_unbans,
             commands, rearms, roleAudit, banAudit>>

escalationVars == <<rule_violation, temp_ban_rules, suggestion>>

convertVars == <<convertPc, seconds, duration_str, parsed, reformatted,
                 base_time_str, per_prior_str, actual_punishment,
                 actual_seconds, escalationVars>>

fileVars == <<files, file_lock, filePc, data, call>>

vars == <<botVars, convertVars, fileVars>>

storeVars == <<logs, next_log_id, allocated>>
idVars == <<next_log_id, allocated>>
roleVars == <<hasRole, roleAudit>>
timerVars == <<tasks, scheduled_removals>>
sweepVars == <<sweepPc, sweepList, sweepBans>>
banVars == <<banned, temp_bans, unbanTasks, scheduled_unbans, banAudit>>
restoreVars == <<restorePc, restoreRows>>

-----------------------------------------------------------------------------
(* data_manager.py: the logs store *)

\* The first of the indices I, 0 when there is none: the
\* "for log in data.get('logs', [])" loops that return at the first match.
FirstIndex(I) == IF I = {} THEN 0 ELSE Min(I)

\* create_log: the number given to a new log of guild g.
NextLogNumber(L, g) ==
    LET guild_logs == {i \in 1..Len(L) : L[i].guild_id = g /\ ~L[i].retracted}
    IN Max({L[i].log_number : i \in guild_logs} \cup {0}) + 1

\* create_log: the entry appended.  The descriptive fields, message_id and
\* punishment_start are left out: nothing modelled here reads them.
LogEntry(id, n, g, u, rt) ==
    [id |-> id, log_number |-> n, guild_id |-> g, user_id |-> u,
     release_time |-> rt, retracted |-> FALSE, completed_at |-> NULL]

\* A create_log that stores nothing.
create_nothing(L, id, g, u, rt) == L

create_log(L, id, g, u, rt) ==
    Append(L, LogEntry(id, NextLogNumber(L, g), g, u, rt))

\* get_log: index of the entry returned, 0 for None.
get_log(L, n, g) ==
    FirstIndex({i \in 1..Len(L) : L[i].log_number = n /\ L[i].guild_id = g})

\* update_log(log_number, guild_id, user_id=u, release_time=rt); NULL is a
\* field not provided.
update_log(L, n, g, u, rt) ==
    LET i == get_log(L, n, g)
    IN IF i = 0 THEN L
       ELSE [L EXCEPT ![i] =
                [@ EXCEPT !.user_id = IF u # NULL THEN u ELSE @,
                          !.release_time = IF rt # NULL THEN rt ELSE @]]

\* delete_log: drops every entry with that number and guild.
delete_log(L, n, g) ==
    SelectSeq(L, LAMBDA e : ~(e.log_number = n /\ e.guild_id = g))

\* A retraction that leaves release_time as it is.
retract_keeping_time(L, n, g, retract) ==
    LET i == get_log(L, n, g)
    IN IF i = 0 THEN L ELSE [L EXCEPT ![i].retracted = retract]

\* retract_log(log_number, guild_id, retract)
retract_log(L, n, g, retract) ==
    LET i == get_log(L, n, g)
    IN IF i = 0 THEN L
       ELSE [L EXCEPT ![i] =
                [@ EXCEPT !.retracted = retract,
                          !.release_time = IF retract THEN NULL ELSE @]]

\* get_punishment_count
get_punishment_count(L, u, g) ==
    Cardinality({i \in 1..Len(L) :
        L[i].user_id = u /\ L[i].guild_id = g /\ ~L[i].retracted})

Row(e) == [user_id |-> e.user_id, guild_id |-> e.guild_id,
           release_time |-> e.release_time]

RECURSIVE Rows(_)
Rows(L) == IF L = <<>> THEN <<>> ELSE <<Row(Head(L))>> \o Rows(Tail(L))

\* get_active_punishments(guild_id); g = NULL is guild_id=None.
get_active_punishments(L, g) ==
    Rows(SelectSeq(L, LAMBDA e :
        e.release_time # NULL /\ ~e.retracted
        /\ (g = NULL \/ e.guild_id = g)))

\* An overdue query that finds nothing.
get_expired_none(L, g, t) == <<>>

\* get_expired_punishments(guild_id) at time t.
get_expired_punishments(L, g, t) ==
    Rows(SelectSeq(L, LAMBDA e :
        e.release_time # NULL /\ e.release_time <= t /\ ~e.retracted
        /\ (g = NULL \/ e.guild_id = g)))

\* A completion that stamps the entry and keeps its release_time.
mark_keeping_time(L, u, g, rt, t) ==
    LET i == FirstIndex({k \in 1..Len(L) :
                            /\ L[k].user_id = u
                            /\ L[k].guild_id = g
                            /\ L[k].release_time = rt})
    IN IF i = 0 THEN L ELSE [L EXCEPT ![i] = [@ EXCEPT !.completed_at = t]]

\* mark_punishment_completed: the first entry of that user and guild whose
\* release_time equals rt is cleared and stamped.
mark_punishment_completed(L, u, g, rt, t) ==
    LET i == FirstIndex({k \in 1..Len(L) :
                            /\ L[k].user_id = u
                            /\ L[k].guild_id = g
                            /\ L[k].release_time = rt})
    IN IF i = 0 THEN L
       ELSE [L EXCEPT ![i] = [@ EXCEPT !.release_time = NULL,
                                       !.completed_at = t]]

-----------------------------------------------------------------------------
(* data_manager.py: the temp bans store *)

\* create_temp_ban: the record appended.  moderator_id, duration, reason,
\* banned_at and unbanned_at are left out: nothing reads them.
create_temp_ban(B, g, u, n, ut) ==
    Append(B, [guild_id |-> g, user_id |-> u, log_number |-> n,
               unban_time |-> ut, unbanned |-> FALSE])

\* get_active_temp_bans(guild_id)
get_active_temp_bans(B, g) ==
    SelectSeq(B, LAMBDA b : ~b.unbanned /\ (g = NULL \/ b.guild_id = g))

\* get_expired_temp_bans(guild_id) at time t.
get_expired_temp_bans(B, g, t) ==
    SelectSeq(B, LAMBDA b :
        b.unban_time # NULL /\ b.unban_time <= t /\ ~b.unbanned
        /\ (g = NULL \/ b.guild_id = g))

\* mark_temp_ban_completed
mark_temp_ban_completed(B, u, g, ut) ==
    LET i == FirstIndex({k \in 1..Len(B) :
                            /\ B[k].user_id = u
                            /\ B[k].guild_id = g
                            /\ B[k].unban_time = ut
                            /\ ~B[k].unbanned})
    IN IF i = 0 THEN B ELSE [B EXCEPT ![i].unbanned = TRUE]

\* get_temp_ban_for_user: index in B of the ban returned, 0 for None.
get_temp_ban_for_user(B, u, g) ==
    FirstIndex({k \in 1..Len(B) :
                   ~B[k].unbanned /\ B[k].guild_id = g /\ B[k].user_id = u})

\* cancel_temp_ban_record
cancel_temp_ban_record(B, u, g) ==
    LET i == FirstIndex({k \in 1..Len(B) :
                            /\ B[k].user_id = u
                            /\ B[k].guild_id = g
                            /\ ~B[k].unbanned})
    IN IF i = 0 THEN B ELSE [B EXCEPT ![i].unbanned = TRUE]

-----------------------------------------------------------------------------
(* events.py: the timer tasks and the handle map *)

\* The asyncio tasks of remove_role_later that are still running or still
\* held by scheduled_removals, in slots 1..MaxTasks.
\* pc: "sleeping" in asyncio.sleep(delay) or not yet started, "notify" in
\* the awaits after remove_roles was issued, "done" returned.  A task that
\* has ended and that scheduled_removals does not hold is dropped, as the
\* interpreter drops it; a cancelled task is always of that kind, because
\* every cancel() is followed by "del scheduled_removals[user_id]".
Slots == 1..MaxTasks

NoTask == [pc |-> "free"]

Task(u, g, rt) == [user_id |-> u, guild_id |-> g, release_time |-> rt,
                   pc |-> "sleeping"]

\* The asyncio task of unban_later: "sleeping", "unbanned" in the awaits
\* after guild.unban was issued, "done".
UnbanTask(u, g, ut) == [user_id |-> u, guild_id |-> g, unban_time |-> ut,
                        pc |-> "sleeping"]

Live(t) == t.pc \in {"sleeping", "notify", "unbanned"}

FreeSlot(T) == Min({i \in Slots : T[i] = NoTask})

\* Drop the ended tasks that the handle map H no longer holds.
Collect(T, H) ==
    [i \in Slots |->
        IF T[i].pc = "done" /\ \A u \in Users : H[u] # i
        THEN NoTask ELSE T[i]]

\* A cancel() that stops nothing.
CancelTaskNot(T, i) == T

\* A cancel() that stops a task only once it is past its sleep.
CancelTaskStarted(T, i) ==
    IF T[i].pc \in {"notify", "unbanned"} THEN [T EXCEPT ![i] = NoTask] ELSE T

\* task.cancel() on the task in slot i: a running task ends there, a
\* finished one is left as it is.
CancelTask(T, i) ==
    IF Live(T[i]) THEN [T EXCEPT ![i] = NoTask] ELSE T

\* delay = max(0, release_time - now_ts) of remove_role_later
Delay(rt, t) == IF rt - t > 0 THEN rt - t ELSE 0

\* The scheduler state an operation of events.py works on: the tasks T and
\* the handle map H.  H[u] = 0 is a user without a key.
Sched(T, H) == [T |-> T, H |-> H]

HasFreeSlot(S) == \E i \in Slots : S.T[i] = NoTask

\* A cancel_scheduled_removal without "del scheduled_removals[user_id]".
cancel_without_del(S, u) ==
    IF S.H[u] # 0 THEN Sched(CancelTask(S.T, S.H[u]), S.H) ELSE S

\* cancel_scheduled_removal, and the same three lines in the sweep and in
\* restore_active_punishments: "if scheduled_removals.get(user_id):
\* scheduled_removals[user_id].cancel(); del scheduled_removals[user_id]"
cancel_scheduled_removal(S, u) ==
    IF S.H[u] # 0
    THEN LET H2 == [S.H EXCEPT ![u] = 0]
         IN Sched(Collect(CancelTask(S.T, S.H[u]), H2), H2)
    ELSE S

\* schedule_role_removal: "task = bot.loop.create_task(remove_role_later());
\* scheduled_removals[user_id] = task".  A handle the user already has is
\* overwritten; its task is not cancelled.
schedule_role_removal(S, u, g, rt) ==
    LET i == FreeSlot(S.T)
        H2 == [S.H EXCEPT ![u] = i]
    IN Sched(Collect([S.T EXCEPT ![i] = Task(u, g, rt)], H2), H2)

\* The end of remove_role_later in slot i.  forget is whether it ran "if
\* scheduled_removals.get(user_id): del scheduled_removals[user_id]",
\* which drops the user's key whichever task it holds.
EndTask(S, i, forget) ==
    LET H2 == IF forget THEN [S.H EXCEPT ![S.T[i].user_id] = 0] ELSE S.H
    IN Sched(Collect([S.T EXCEPT ![i].pc = "done"], H2), H2)

\* schedule_temp_unban: "if scheduled_unbans.get(user_id):
\* scheduled_unbans[user_id].cancel()", then the new task takes the key.
schedule_temp_unban(S, u, g, ut) ==
    LET T1 == IF S.H[u] # 0 THEN CancelTask(S.T, S.H[u]) ELSE S.T
        i == FreeSlot(T1)
        H2 == [S.H EXCEPT ![u] = i]
    IN Sched(Collect([T1 EXCEPT ![i] = UnbanTask(u, g, ut)], H2), H2)

\* cancel_temp_unban
cancel_temp_unban(S, u) ==
    IF S.H[u] # 0
    THEN LET H2 == [S.H EXCEPT ![u] = 0]
         IN Sched(Collect(CancelTask(S.T, S.H[u]), H2), H2)
    ELSE S

\* restore_active_temp_bans over the bans in rows: "if unban_time: await
\* schedule_temp_unban(...)".
RECURSIVE restore_active_temp_bans(_, _)
restore_active_temp_bans(S, rows) ==
    IF rows = <<>> THEN S
    ELSE LET b == Head(rows)
         IN restore_active_temp_bans(
                IF b.unban_time # NULL /\ b.unban_time # 0
                THEN schedule_temp_unban(S, b.user_id, ALLOWED_GUILD_ID,
                                         b.unban_time)
                ELSE S,
                Tail(rows))

-----------------------------------------------------------------------------
(* utils.py: durations as text.  A text is a sequence of characters. *)

Indefinite == <<"i", "n", "d", "e", "f", "i", "n", "i", "t", "e">>

DigitChars == <<"0", "1", "2", "3", "4", "5", "6", "7", "8", "9">>

IsDigit(c) == \E d \in 1..10 : DigitChars[d] = c

DigitValue(c) == (CHOOSE d \in 1..10 : DigitChars[d] = c) - 1

\* str(n) of a natural number, as the f-strings of format_duration write it
RECURSIVE Str(_)
Str(n) ==
    IF n < 10 THEN <<DigitChars[n + 1]>>
    ELSE Str(n \div 10) \o <<DigitChars[(n % 10) + 1]>>

\* int(amount) of a text of digits
RECURSIVE IntOf(_)
IntOf(t) ==
    IF t = <<>> THEN 0
    ELSE IntOf(SubSeq(t, 1, Len(t) - 1)) * 10 + DigitValue(t[Len(t)])

\* str.lower() on the letters the texts here are made of
LowerChar(c) ==
    CASE c = "H" -> "h" [] c = "M" -> "m" [] c = "D" -> "d"
      [] c = "W" -> "w" [] c = "O" -> "o" [] OTHER -> c

Lower(t) == [k \in 1..Len(t) |-> LowerChar(t[k])]

\* The length of the match of "^(\d+)": the digits t starts with.
RECURSIVE LeadingDigits(_)
LeadingDigits(t) ==
    IF t = <<>> \/ ~IsDigit(Head(t)) THEN 0
    ELSE 1 + LeadingDigits(Tail(t))

\* parse_time_duration: None (NULL) for "indefinite" and for a text that
\* re.match(r'^(\d+)(mo|[wdhm])$', ...) rejects.
parse_time_duration(duration_text) ==
    LET low == Lower(duration_text)
        k == LeadingDigits(low)
        amount == IntOf(SubSeq(low, 1, k))
        unit == SubSeq(low, k + 1, Len(low))
    IN IF low = Indefinite THEN NULL
       ELSE IF k = 0 THEN NULL
       ELSE CASE unit = <<"m", "o">> -> amount * 30 * 24 * 3600
              [] unit = <<"w">> -> amount * 7 * 24 * 3600
              [] unit = <<"d">> -> amount * 24 * 3600
              [] unit = <<"h">> -> amount * 3600
              [] unit = <<"m">> -> amount * 60
              [] OTHER -> NULL

\* format_duration: the largest unit that fits, rounded down.
format_duration(secs) ==
    IF secs = NULL THEN Indefinite
    ELSE IF secs < 60 THEN Str(secs) \o <<"s">>
    ELSE IF secs < 3600 THEN Str(secs \div 60) \o <<"m">>
    ELSE IF secs < 86400 THEN Str(secs \div 3600) \o <<"h">>
    ELSE IF secs < 604800 THEN Str(secs \div 86400) \o <<"d">>
    ELSE IF secs < 2592000 THEN Str(secs \div 604800) \o <<"w">>
    ELSE Str(secs \div 2592000) \o <<"m", "o">>

\* Python's "x or d" on the result of parse_time_duration: d for None
\* and for 0.
OrElse(x, d) == IF x = NULL \/ x = 0 THEN d ELSE x

\* calculate_automatic_punishment for a rule whose entries in the
\* punishment config are base_text and per_prior_text.
calculate_automatic_punishment(L, u, g, base_text, per_prior_text) ==
    IF Lower(base_text) = Indefinite THEN Indefinite
    ELSE LET prior_count == get_punishment_count(L, u, g)
             base_seconds == OrElse(parse_time_duration(base_text), 7200)
             per_prior_seconds ==
                 OrElse(parse_time_duration(per_prior_text), 0)
             total_seconds == base_seconds + prior_count * per_prior_seconds
         IN format_duration(total_seconds)

\* extract_rule_number: the digits of the first match of '§+\s*(\d+)' in
\* the text, <<>> for None.  A match starts at a "§", runs over the "§"
\* and the blanks that follow, and needs a digit there.
RECURSIVE SkipAll(_, _)
SkipAll(t, c) == IF t # <<>> /\ Head(t) = c THEN SkipAll(Tail(t), c) ELSE t

RECURSIVE extract_rule_number(_)
extract_rule_number(t) ==
    IF t = <<>> THEN <<>>
    ELSE LET rest == SkipAll(SkipAll(t, "§"), " ")
         IN IF Head(t) = "§" /\ LeadingDigits(rest) > 0
            THEN SubSeq(rest, 1, LeadingDigits(rest))
            ELSE extract_rule_number(Tail(t))

\* The suffix of the key of a rule's entry for continued offenses.
Continued == <<"_", "c", "o", "n", "t", "i", "n", "u", "e", "d">>

\* None as the result of check_temp_ban_applicable.
NoSuggestion == [rule_key |-> <<>>, duration |-> <<>>, trigger |-> "none"]

\* check_temp_ban_applicable on the temp ban rules of the punishment
\* config.  description and prior_offenses of the result are left out.
check_temp_ban_applicable(rules, L, violation, u, g) ==
    LET rule_num == extract_rule_number(violation)
        continued_key == rule_num \o Continued
    IN IF rule_num = <<>> THEN NoSuggestion
       ELSE IF rule_num \in DOMAIN rules
       THEN [rule_key |-> rule_num, duration |-> rules[rule_num].duration,
             trigger |-> rules[rule_num].trigger]
       ELSE IF get_punishment_count(L, u, g) > 0
               /\ continued_key \in DOMAIN rules
       THEN [rule_key |-> continued_key,
             duration |-> rules[continued_key].duration,
             trigger |-> "continued"]
       ELSE NoSuggestion

\* No conversion is under way.
ConvertIdle ==
    /\ convertPc = "idle"
    /\ seconds = 0
    /\ duration_str = <<>>
    /\ parsed = NULL
    /\ reformatted = <<>>
    /\ base_time_str = <<>>
    /\ per_prior_str = <<>>
    /\ actual_punishment = <<>>
    /\ actual_seconds = NULL
    /\ rule_violation = <<>>
    /\ temp_ban_rules = <<>>
    /\ suggestion = NoSuggestion

-----------------------------------------------------------------------------
(* data_manager.py: the files.  A content is what a file holds: kind      *)
(* "json" with the dict it encodes, "absent", "empty", "bad_json" (text   *)
(* json.loads rejects), "bad_bytes" (bytes that are not UTF-8), or        *)
(* "partial" (a file open for writing, or left by a writer that died).    *)

ROLES_FILE == <<"allowed_roles.json">>

\* A save_json that writes into the file itself.
temp_is_target(file_path) == file_path

\* temp_path = file_path + '.tmp'
temp_path(file_path) == file_path \o <<".tmp">>

EmptyDict == [k \in {} |-> <<>>]

Json(d) == [kind |-> "json", data |-> d]

Other(kind) == [kind |-> kind, data |-> EmptyDict]

\* Python's result of a call: a value returned, or an exception raised.
Returned(v) == [raised |-> "", value |-> v]
Raised(e) == [raised |-> e, value |-> EmptyDict]

\* What "with open(...) as f: content = f.read().strip(); ...
\* json.loads(content)" does on content c when open ends as opened
\* ("ok" or "os_error").
ReadJson(c, opened) ==
    IF opened = "os_error" THEN Raised("IOError")
    ELSE CASE c.kind = "json" -> Returned(c.data)
           [] c.kind = "empty" -> Returned(EmptyDict)
           [] c.kind = "bad_bytes" -> Raised("UnicodeDecodeError")
           [] OTHER -> Raised("JSONDecodeError")

\* load_json: {} for a file that does not exist and for an exception
\* that "except (json.JSONDecodeError, IOError)" catches.
load_json(F, file_path, opened) ==
    IF F[file_path].kind = "absent" THEN Returned(EmptyDict)
    ELSE LET r == ReadJson(F[file_path], opened)
         IN IF r.raised \in {"JSONDecodeError", "IOError"}
            THEN Returned(EmptyDict) ELSE r

\* The role ids dict d holds for a guild: data.get(str(guild_id), [])
RolesOf(d, guild_id) ==
    IF Str(guild_id) \in DOMAIN d THEN d[Str(guild_id)] ELSE <<>>

\* A dict with nothing but the list l under key k.
OnlyList(d, k, l) == [j \in (IF l = <<>> THEN {} ELSE {k}) |-> l]

\* d with the list l under key k; an empty l deletes the key.
WithList(d, k, l) ==
    [j \in (IF l = <<>> THEN DOMAIN d \ {k} ELSE DOMAIN d \cup {k}) |->
        IF j = k THEN l ELSE d[j]]

\* data[guild_key].append(role_id) of add_allowed_role, and
\* data[guild_key].remove(role_id) with "del data[guild_key]" for a list
\* left empty of remove_allowed_role.
Updated(d, name, guild_id, role_id) ==
    LET l == RolesOf(d, guild_id)
    IN WithList(d, Str(guild_id),
                IF name = "add" THEN Append(l, role_id)
                ELSE SelectSeq(l, LAMBDA x : x # role_id))

NoCall == [name |-> "none", guild_id |-> 0, role_id |-> 0, loaded |-> FALSE]

\* No store operation is under way and the model keeps no file.
FilesIdle ==
    /\ files = [q \in {ROLES_FILE, temp_path(ROLES_FILE)} |-> Other("absent")]
    /\ file_lock = "free"
    /\ filePc = "idle"
    /\ data = EmptyDict
    /\ call = NoCall

-----------------------------------------------------------------------------

Init ==
    /\ now = 1
    /\ logs = <<>>
    /\ next_log_id = 1
    /\ allocated = <<>>
    /\ hasRole = [u \in Users |-> FALSE]
    /\ tasks = [i \in Slots |-> NoTask]
    /\ scheduled_removals = [u \in Users |-> 0]
    /\ sweepPc = "sleep"
    /\ sweepList = <<>>
    /\ sweepBans = <<>>
    /\ restorePc = "idle"
    /\ restoreRows = <<>>
    /\ banned = [u \in Users |-> FALSE]
    /\ temp_bans = <<>>
    /\ unbanTasks = [i \in Slots |-> NoTask]
    /\ scheduled_unbans = [u \in Users |-> 0]
    /\ commands = 0
    /\ rearms = <<>>
    /\ roleAudit = [u \in Users |-> <<>>]
    /\ banAudit = [u \in Users |-> <<>>]
    /\ ConvertIdle
    /\ FilesIdle

\* The clock advances.
Tick ==
    /\ now < MaxTime
    /\ now' = now + 1
    /\ UNCHANGED <<convertVars, fileVars, storeVars, roleVars, timerVars, sweepVars, restoreVars,
                   banVars, commands, rearms>>

\* The scheduler state of the role removals, and of the banAudit.
Now == Sched(tasks, scheduled_removals)
BansNow == Sched(unbanTasks, scheduled_unbans)

\* The scheduler state after the step.
SchedBecomes(S) ==
    /\ tasks' = S.T
    /\ scheduled_removals' = S.H

UnbanSchedBecomes(S) ==
    /\ unbanTasks' = S.T
    /\ scheduled_unbans' = S.H

\* add_roles took effect; by is who called it.
RoleGranted(u, by) ==
    /\ hasRole' = [hasRole EXCEPT ![u] = TRUE]
    /\ roleAudit' = [roleAudit EXCEPT ![u] = <<by>>]

\* remove_roles took effect; by is who called it.
RoleRemoved(u, by) ==
    /\ hasRole' = [hasRole EXCEPT ![u] = FALSE]
    /\ roleAudit' = [roleAudit EXCEPT ![u] = Append(@, by)]

\* The member left the guild, and with it lost the role.
MemberGone(u) ==
    /\ hasRole' = [hasRole EXCEPT ![u] = FALSE]
    /\ UNCHANGED roleAudit

\* member.ban took effect: the user is out of the guild.
UserBanned(u) ==
    /\ banned' = [banned EXCEPT ![u] = TRUE]
    /\ banAudit' = [banAudit EXCEPT ![u] = <<"tempban">>]
    /\ MemberGone(u)

\* guild.unban took effect.
UserUnbanned(u, by) ==
    /\ banned' = [banned EXCEPT ![u] = FALSE]
    /\ banAudit' = [banAudit EXCEPT ![u] = Append(@, by)]

\* A moderator's slash command is handled.
CommandHandled ==
    /\ commands < MaxCommands
    /\ commands' = commands + 1

-----------------------------------------------------------------------------
(* commands.py *)

\* What a moderator may pass as punishment or duration: a duration or
\* "indefinite", for which parse_time_duration returns None.
Punishments == Durations \cup {NULL}

\* canada: "release_time = punishment_start + duration_seconds if
\* duration_seconds else None"; tempban computes unban_time the same way.
ReleaseTimeOf(punishment_start, duration_seconds) ==
    IF duration_seconds # NULL /\ duration_seconds # 0
    THEN punishment_start + duration_seconds ELSE NULL

\* /canada with a rule violation given.  granted is whether add_roles
\* succeeded; when it raises, the log stays and no timer is armed.
Canada(u, d, granted) ==
    LET release_time == ReleaseTimeOf(now, d)
    IN /\ ~banned[u]
       /\ ~hasRole[u]
       /\ next_log_id <= MaxLogs
       /\ release_time <= MaxTime
       /\ logs' = create_log(logs, next_log_id, ALLOWED_GUILD_ID, u,
                             release_time)
       /\ next_log_id' = next_log_id + 1
       /\ allocated' = Append(allocated, NextLogNumber(logs, ALLOWED_GUILD_ID))
       /\ IF granted
          THEN /\ RoleGranted(u, "canada")
               /\ IF release_time # NULL
                  THEN /\ HasFreeSlot(Now)
                       /\ SchedBecomes(schedule_role_removal(
                              Now, u, ALLOWED_GUILD_ID, release_time))
                  ELSE UNCHANGED timerVars
          ELSE UNCHANGED <<roleVars, timerVars>>
       /\ CommandHandled
       /\ rearms' = <<>>
       /\ UNCHANGED <<convertVars, fileVars, now, sweepVars, restoreVars, banVars>>

\* release: "for ... in active_punishments: if user_id == user.id:
\* mark_punishment_completed(user_id, guild_id, release_time)"
RECURSIVE MarkRowsOfUser(_, _, _, _)
MarkRowsOfUser(L, rows, u, t) ==
    IF rows = <<>> THEN L
    ELSE LET r == Head(rows)
         IN MarkRowsOfUser(
                IF r.user_id = u
                THEN mark_punishment_completed(L, r.user_id, r.guild_id,
                                               r.release_time, t)
                ELSE L,
                Tail(rows), u, t)

\* A release that cancels the timer before it removes the role.
ReleaseFailedCancels(u) ==
    /\ SchedBecomes(cancel_scheduled_removal(Now, u))
    /\ UNCHANGED <<roleVars, logs>>

\* release when user.remove_roles raises: the handler of the try sends an
\* error message.
ReleaseFailed(u) == UNCHANGED <<roleVars, logs, timerVars>>

\* /release.  removed is whether remove_roles succeeded; when it raises
\* nothing else is done.
Release(u, removed) ==
    /\ hasRole[u]
    /\ IF removed
       THEN /\ RoleRemoved(u, "release")
            /\ logs' = MarkRowsOfUser(logs,
                           get_active_punishments(logs, ALLOWED_GUILD_ID),
                           u, now)
            /\ SchedBecomes(cancel_scheduled_removal(Now, u))
       ELSE ReleaseFailed(u)
    /\ CommandHandled
    /\ UNCHANGED <<convertVars, fileVars, rearms, now, idVars, sweepVars, restoreVars, banVars>>

\* extend: new_release_time = current_release_time + extension_seconds
ExtendedReleaseTime(current_release_time, extension_seconds) ==
    current_release_time + extension_seconds

\* A reduction that is not clamped at now_ts.
ReducedWithoutClamp(now_ts, current_release_time, reduction_seconds) ==
    current_release_time - reduction_seconds

\* reduce: new_release_time = max(now_ts, current_release_time - reduction)
ReducedReleaseTime(now_ts, current_release_time, reduction_seconds) ==
    IF now_ts >= current_release_time - reduction_seconds
    THEN now_ts ELSE current_release_time - reduction_seconds

\* What extend and reduce do once new_release_time is computed: update_log,
\* cancel_scheduled_removal, schedule_role_removal.
Rearm(i, new_release_time, op, by) ==
    LET user_id == logs[i].user_id
        cancelled == cancel_scheduled_removal(Now, user_id)
    IN /\ HasFreeSlot(cancelled)
       /\ logs' = update_log(logs, logs[i].log_number, ALLOWED_GUILD_ID,
                             NULL, new_release_time)
       /\ SchedBecomes(schedule_role_removal(cancelled, user_id,
                           ALLOWED_GUILD_ID, new_release_time))
       /\ CommandHandled
       /\ rearms' = Append(rearms, [op |-> op, log_number |-> logs[i].log_number,
                                    by |-> by, was |-> logs[i].release_time])
       /\ UNCHANGED <<convertVars, fileVars, now, idVars, roleVars, sweepVars, restoreVars,
                      banVars>>

\* "if current_release_time is None" of extend and reduce
HasReleaseTime(e) == e.release_time # NULL

\* /extend log_number by
Extend(n, by) ==
    LET i == get_log(logs, n, ALLOWED_GUILD_ID)
    IN /\ i # 0
       /\ HasReleaseTime(logs[i])
       /\ ExtendedReleaseTime(logs[i].release_time, by) <= MaxTime
       /\ Rearm(i, ExtendedReleaseTime(logs[i].release_time, by), "extend", by)

\* /reduce log_number by
Reduce(n, by) ==
    LET i == get_log(logs, n, ALLOWED_GUILD_ID)
    IN /\ i # 0
       /\ HasReleaseTime(logs[i])
       /\ Rearm(i, ReducedReleaseTime(now, logs[i].release_time, by),
                "reduce", by)

\* /retract log_number: toggles retracted.
Retract(n) ==
    LET i == get_log(logs, n, ALLOWED_GUILD_ID)
    IN /\ i # 0
       /\ logs' = retract_log(logs, n, ALLOWED_GUILD_ID, ~logs[i].retracted)
       /\ CommandHandled
       /\ UNCHANGED <<convertVars, fileVars, rearms, now, idVars, roleVars, timerVars, sweepVars,
                      restoreVars, banVars>>

\* /edit log_number user: update_log with the user given, or with none;
\* the rule violation and the description are not part of the model.
Edit(n, u) ==
    /\ get_log(logs, n, ALLOWED_GUILD_ID) # 0
    /\ logs' = update_log(logs, n, ALLOWED_GUILD_ID, u, NULL)
    /\ CommandHandled
    /\ UNCHANGED <<convertVars, fileVars, rearms, now, idVars, roleVars, timerVars, sweepVars,
                   restoreVars, banVars>>

\* /delete log_number
Delete(n) ==
    /\ get_log(logs, n, ALLOWED_GUILD_ID) # 0
    /\ logs' = delete_log(logs, n, ALLOWED_GUILD_ID)
    /\ CommandHandled
    /\ UNCHANGED <<convertVars, fileVars, rearms, now, idVars, roleVars, timerVars, sweepVars,
                   restoreVars, banVars>>

\* /tempban user duration.  ok is whether user.ban succeeded; when it
\* raises, the log created before it stays and nothing else is done.
TempBan(u, d, ok) ==
    LET unban_time == ReleaseTimeOf(now, d)
        created == create_log(logs, next_log_id, ALLOWED_GUILD_ID, u, NULL)
        log_number == created[Len(created)].log_number
    IN /\ ~banned[u]
       /\ next_log_id <= MaxLogs
       /\ unban_time <= MaxTime
       /\ logs' = created
       /\ next_log_id' = next_log_id + 1
       /\ allocated' = Append(allocated, NextLogNumber(logs, ALLOWED_GUILD_ID))
       /\ IF ok
          THEN /\ UserBanned(u)
               /\ temp_bans' = create_temp_ban(temp_bans, ALLOWED_GUILD_ID,
                                               u, log_number, unban_time)
               /\ IF unban_time # NULL
                  THEN UnbanSchedBecomes(schedule_temp_unban(
                           BansNow, u, ALLOWED_GUILD_ID, unban_time))
                  ELSE UNCHANGED <<unbanTasks, scheduled_unbans>>
          ELSE UNCHANGED <<roleVars, banVars>>
       /\ CommandHandled
       /\ UNCHANGED <<convertVars, fileVars, rearms, now, timerVars, sweepVars, restoreVars>>

\* How guild.unban can end: done, NotFound (no such ban), or another error.
UnbanOutcomes == {"ok", "not_found", "error"}

\* The outcomes guild.unban can have for user u now.
CanUnban(u, outcome) ==
    /\ outcome = "ok" => banned[u]
    /\ outcome = "not_found" => ~banned[u]

\* /tempban_cancel user: the timer and the record are cancelled before
\* guild.unban is called.
TempBanCancel(u, outcome) ==
    /\ get_temp_ban_for_user(temp_bans, u, ALLOWED_GUILD_ID) # 0
    /\ CanUnban(u, outcome)
    /\ UnbanSchedBecomes(cancel_temp_unban(BansNow, u))
    /\ temp_bans' = cancel_temp_ban_record(temp_bans, u, ALLOWED_GUILD_ID)
    /\ IF outcome = "ok" THEN UserUnbanned(u, "tempban_cancel") ELSE UNCHANGED <<banned, banAudit>>
    /\ CommandHandled
    /\ UNCHANGED <<convertVars, fileVars, rearms, now, storeVars, roleVars, timerVars, sweepVars,
                   restoreVars>>

-----------------------------------------------------------------------------
(* events.py: remove_role_later *)

\* How resolving the member and removing the role can end.
Outcomes == {"ok", "not_found", "fetch_error", "remove_error"}

\* A banned user is not a member: fetch_member cannot return it.
CanFetch(u, outcome) ==
    outcome \in {"ok", "remove_error"} => ~banned[u]

\* A timer that does not look at member.roles.
TimerSeesAnyRole(u) == TRUE

\* "if canada_role and canada_role in member.roles" of remove_role_later
TimerSeesRole(u) == hasRole[u]

\* The task in slot i wakes from asyncio.sleep(delay) and runs to its next
\* await or to its end.
TimerFire(i, outcome) ==
    LET t == tasks[i]
        u == t.user_id
        marked == mark_punishment_completed(logs, u, t.guild_id,
                                            t.release_time, now)
    IN /\ t.pc = "sleeping"
       /\ Delay(t.release_time, now) = 0
       /\ CanFetch(u, outcome)
       /\ CASE outcome = "not_found" ->
                 /\ logs' = marked
                 /\ MemberGone(u)
                 /\ SchedBecomes(EndTask(Now, i, FALSE))
            [] outcome = "fetch_error" ->
                 /\ SchedBecomes(EndTask(Now, i, FALSE))
                 /\ UNCHANGED <<logs, roleVars>>
            [] outcome = "remove_error" ->
                 /\ TimerSeesRole(u)
                 /\ SchedBecomes(EndTask(Now, i, FALSE))
                 /\ UNCHANGED <<logs, roleVars>>
            [] outcome = "ok" ->
                 IF TimerSeesRole(u)
                 THEN /\ RoleRemoved(u, "timer")
                      /\ tasks' = [tasks EXCEPT ![i].pc = "notify"]
                      /\ UNCHANGED <<logs, scheduled_removals>>
                 ELSE /\ logs' = marked
                      /\ SchedBecomes(EndTask(Now, i, TRUE))
                      /\ UNCHANGED roleVars
       /\ UNCHANGED <<convertVars, fileVars, now, idVars, sweepVars, restoreVars, banVars,
                      commands, rearms>>

\* remove_roles and member.send have returned: mark completed, drop the
\* user's key.  sent = FALSE is member.send raising something other than
\* Forbidden, which the outer handler logs.
TimerFinish(i, sent) ==
    LET t == tasks[i]
    IN /\ t.pc = "notify"
       /\ SchedBecomes(EndTask(Now, i, sent))
       /\ logs' = IF sent
                  THEN mark_punishment_completed(logs, t.user_id, t.guild_id,
                                                 t.release_time, now)
                  ELSE logs
       /\ UNCHANGED <<convertVars, fileVars, now, idVars, roleVars, sweepVars, restoreVars,
                      banVars, commands, rearms>>

-----------------------------------------------------------------------------
(* events.py: unban_later *)

\* The task in slot i wakes and calls fetch_user and guild.unban.
UnbanFire(i, outcome) ==
    LET t == unbanTasks[i]
        u == t.user_id
    IN /\ t.pc = "sleeping"
       /\ Delay(t.unban_time, now) = 0
       /\ CanUnban(u, outcome)
       /\ CASE outcome = "ok" ->
                 /\ UserUnbanned(u, "timer")
                 /\ unbanTasks' = [unbanTasks EXCEPT ![i].pc = "unbanned"]
                 /\ UNCHANGED <<temp_bans, scheduled_unbans>>
            [] outcome = "not_found" ->
                 /\ temp_bans' = mark_temp_ban_completed(
                                     temp_bans, u, t.guild_id, t.unban_time)
                 /\ UnbanSchedBecomes(EndTask(BansNow, i, TRUE))
                 /\ UNCHANGED <<banned, banAudit>>
            [] outcome = "error" ->
                 /\ UnbanSchedBecomes(EndTask(BansNow, i, TRUE))
                 /\ UNCHANGED <<banned, banAudit, temp_bans>>
       /\ UNCHANGED <<convertVars, fileVars, now, storeVars, roleVars, timerVars, sweepVars,
                      restoreVars, commands, rearms>>

\* guild.unban has returned: mark completed, send the notices, drop the
\* user's key.
UnbanFinish(i) ==
    LET t == unbanTasks[i]
    IN /\ t.pc = "unbanned"
       /\ temp_bans' = mark_temp_ban_completed(temp_bans, t.user_id,
                                               t.guild_id, t.unban_time)
       /\ UnbanSchedBecomes(EndTask(BansNow, i, TRUE))
       /\ UNCHANGED <<convertVars, fileVars, now, storeVars, roleVars, timerVars, sweepVars,
                      restoreVars, banned, banAudit, commands, rearms>>

-----------------------------------------------------------------------------
(* events.py: cleanup_expired_punishments, cleanup_expired_temp_bans *)

\* A sweep that does not look at member.roles.
SweepSeesAnyRole(u) == TRUE

\* "if member and canada_role and canada_role in member.roles" of the sweep
SweepSeesRole(u) == hasRole[u]

\* The punishments of the pass are done: cleanup_expired_temp_bans reads
\* the expired bans; with none the pass is over.
SweepBeginBans ==
    /\ sweepList' = <<>>
    /\ sweepBans' = get_expired_temp_bans(temp_bans, ALLOWED_GUILD_ID, now)
    /\ sweepPc' = IF sweepBans' = <<>> THEN "sleep" ELSE "unban"

\* A loop that an exception reaching its outer handler would end.
SleepingUnlessFailed == {"sleep"}

\* The positions in which the sweep is in asyncio.sleep(60): after a pass
\* that ended, and after one that was cut short by an exception that reached
\* "except Exception as e" of the while loop.
Sleeping == {"sleep", "failed"}

\* The sweep wakes from asyncio.sleep(60) and an exception is raised outside
\* the handling of a single record (reading the expired punishments, or at
\* the start of cleanup_expired_temp_bans): it is logged, and the loop goes
\* back to asyncio.sleep(60).
SweepRaises ==
    /\ sweepPc = "sleep"
    /\ sweepPc' = "failed"
    /\ UNCHANGED <<convertVars, fileVars, now, storeVars, roleVars, timerVars, sweepList, sweepBans,
                   restoreVars, banVars, commands, rearms>>

\* The sweep wakes from asyncio.sleep(60) and reads the expired punishments.
SweepWake ==
    LET expired_punishments ==
            get_expired_punishments(logs, ALLOWED_GUILD_ID, now)
    IN /\ sweepPc \in Sleeping
       /\ IF expired_punishments # <<>>
          THEN /\ sweepList' = expired_punishments
               /\ sweepPc' = "visit"
               /\ UNCHANGED sweepBans
          ELSE SweepBeginBans
       /\ UNCHANGED <<convertVars, fileVars, now, storeVars, roleVars, timerVars, restoreVars,
                      banVars, commands, rearms>>

\* A loop that a failure on one record would end.
SweepAbort ==
    /\ sweepList' = <<>>
    /\ sweepPc' = "sleep"
    /\ UNCHANGED sweepBans

\* The loop goes on to its next punishment, or to the bans.
SweepAdvance ==
    IF Tail(sweepList) # <<>>
    THEN /\ sweepList' = Tail(sweepList)
         /\ sweepPc' = "visit"
         /\ UNCHANGED sweepBans
    ELSE SweepBeginBans

\* One punishment of the pass, up to the await of remove_roles or to the
\* end of the loop body.
SweepVisit(outcome) ==
    LET r == Head(sweepList)
        u == r.user_id
        marked == mark_punishment_completed(logs, u, r.guild_id,
                                            r.release_time, now)
    IN /\ sweepPc = "visit"
       /\ CanFetch(u, outcome)
       /\ CASE outcome = "not_found" ->
                 /\ logs' = marked
                 /\ MemberGone(u)
                 /\ SweepAdvance
                 /\ UNCHANGED timerVars
            [] outcome = "fetch_error" ->
                 /\ SweepAdvance
                 /\ UNCHANGED <<logs, roleVars, timerVars>>
            [] outcome = "remove_error" ->
                 /\ SweepSeesRole(u)
                 /\ SchedBecomes(cancel_scheduled_removal(Now, u))
                 /\ SweepAdvance
                 /\ UNCHANGED <<logs, roleVars>>
            [] outcome = "ok" ->
                 IF SweepSeesRole(u)
                 THEN /\ RoleRemoved(u, "sweep")
                      /\ sweepPc' = "removing"
                      /\ UNCHANGED <<logs, sweepList, sweepBans, timerVars>>
                 ELSE /\ logs' = marked
                      /\ SchedBecomes(cancel_scheduled_removal(Now, u))
                      /\ SweepAdvance
                      /\ UNCHANGED roleVars
       /\ UNCHANGED <<convertVars, fileVars, now, idVars, restoreVars, banVars, commands, rearms>>

\* remove_roles has returned: mark completed, then member.send.
SweepRemoved ==
    LET r == Head(sweepList)
    IN /\ sweepPc = "removing"
       /\ logs' = mark_punishment_completed(logs, r.user_id, r.guild_id,
                                            r.release_time, now)
       /\ sweepPc' = "notify"
       /\ UNCHANGED <<convertVars, fileVars, now, idVars, roleVars, timerVars, sweepList,
                      sweepBans, restoreVars, banVars, commands, rearms>>

\* member.send has returned or raised: "Cancel any remaining scheduled task".
SweepNotified ==
    /\ sweepPc = "notify"
    /\ SchedBecomes(cancel_scheduled_removal(Now, Head(sweepList).user_id))
    /\ SweepAdvance
    /\ UNCHANGED <<convertVars, fileVars, now, storeVars, roleVars, restoreVars, banVars, commands, rearms>>

\* The loop of cleanup_expired_temp_bans goes on to its next ban, or the
\* pass is over.
SweepBansAdvance ==
    /\ sweepBans' = Tail(sweepBans)
    /\ sweepPc' = IF Tail(sweepBans) = <<>> THEN "sleep" ELSE "unban"
    /\ UNCHANGED sweepList

\* One ban of the pass, up to the await of guild.unban or to the end of the
\* loop body.
SweepUnban(outcome) ==
    LET b == Head(sweepBans)
        u == b.user_id
    IN /\ sweepPc = "unban"
       /\ CanUnban(u, outcome)
       /\ CASE outcome = "ok" ->
                 /\ UserUnbanned(u, "sweep")
                 /\ sweepPc' = "unbanned"
                 /\ UNCHANGED <<sweepList, sweepBans, temp_bans>>
            [] outcome = "not_found" ->
                 /\ temp_bans' = mark_temp_ban_completed(
                                     temp_bans, u, ALLOWED_GUILD_ID,
                                     b.unban_time)
                 /\ SweepBansAdvance
                 /\ UNCHANGED <<banned, banAudit>>
            [] outcome = "error" ->
                 /\ SweepBansAdvance
                 /\ UNCHANGED <<banned, banAudit, temp_bans>>
       /\ UNCHANGED <<convertVars, fileVars, now, storeVars, roleVars, timerVars, restoreVars,
                      unbanTasks, scheduled_unbans, commands, rearms>>

\* guild.unban has returned: mark completed, send the notice.
SweepUnbanned ==
    LET b == Head(sweepBans)
    IN /\ sweepPc = "unbanned"
       /\ temp_bans' = mark_temp_ban_completed(temp_bans, b.user_id,
                                               ALLOWED_GUILD_ID, b.unban_time)
       /\ SweepBansAdvance
       /\ UNCHANGED <<convertVars, fileVars, now, storeVars, roleVars, timerVars, restoreVars,
                      banned, banAudit, unbanTasks, scheduled_unbans, commands, rearms>>

-----------------------------------------------------------------------------
(* events.py: on_ready, restore_active_punishments, restore_active_temp_bans *)

\* A restoration that does not compare release_time with now_ts.
RowsToRestoreAll(L, now_ts) == get_active_punishments(L, NULL)

\* The rows restore_active_punishments acts on: "if release_time and
\* release_time > now_ts", with now_ts read once before the loop.
RowsToRestore(L, now_ts) ==
    SelectSeq(get_active_punishments(L, NULL),
              LAMBDA r : r.release_time # 0 /\ r.release_time > now_ts)

\* restore_active_punishments has returned: on_ready goes on to
\* restore_active_temp_bans, which runs without waiting.
RestoreBans(S) ==
    /\ restoreRows' = <<>>
    /\ restorePc' = "idle"
    /\ UnbanSchedBecomes(restore_active_temp_bans(
           S, get_active_temp_bans(temp_bans, ALLOWED_GUILD_ID)))

\* The process restarts: the tasks and the handle maps are lost, the stores
\* stay.  on_ready starts the sweep and begins restore_active_punishments.
Restart ==
    LET rows == RowsToRestore(logs, now)
        lost == Sched([i \in Slots |-> NoTask], [u \in Users |-> 0])
    IN /\ SchedBecomes(lost)
       /\ sweepPc' = "sleep"
       /\ sweepList' = <<>>
       /\ sweepBans' = <<>>
       /\ IF rows # <<>>
          THEN /\ restoreRows' = rows
               /\ restorePc' = "visit"
               /\ UnbanSchedBecomes(lost)
          ELSE RestoreBans(lost)
       /\ UNCHANGED <<convertVars, fileVars, now, storeVars, roleVars, banned, temp_bans, banAudit,
                      commands, rearms>>

\* The loop goes on to its next row, or returns.
RestoreAdvance ==
    IF Tail(restoreRows) # <<>>
    THEN /\ restoreRows' = Tail(restoreRows)
         /\ restorePc' = "visit"
         /\ UNCHANGED <<unbanTasks, scheduled_unbans>>
    ELSE RestoreBans(BansNow)

\* A restoration that never re-grants the role.
RestoreNeverGrants(u) == FALSE

\* "if canada_role not in member.roles" of restore_active_punishments
RestoreSeesNoRole(u) == ~hasRole[u]

RestoreOutcomes == {"ok", "not_found", "fetch_error", "add_error"}

\* One row of restore_active_punishments.  "add_error" is add_roles
\* raising: nothing catches it, and on_ready ends there.
RestoreVisit(outcome) ==
    LET r == Head(restoreRows)
        u == r.user_id
        cancelled == cancel_scheduled_removal(Now, u)
    IN /\ restorePc = "visit"
       /\ outcome \in {"ok", "add_error"} => ~banned[u]
       /\ CASE outcome = "not_found" ->
                 /\ MemberGone(u)
                 /\ RestoreAdvance
                 /\ UNCHANGED timerVars
            [] outcome = "fetch_error" ->
                 /\ RestoreAdvance
                 /\ UNCHANGED <<roleVars, timerVars>>
            [] outcome = "add_error" ->
                 /\ RestoreSeesNoRole(u)
                 /\ restoreRows' = <<>>
                 /\ restorePc' = "idle"
                 /\ UNCHANGED <<roleVars, timerVars, unbanTasks,
                                scheduled_unbans>>
            [] outcome = "ok" ->
                 /\ HasFreeSlot(cancelled)
                 /\ IF RestoreSeesNoRole(u)
                    THEN RoleGranted(u, "restore")
                    ELSE UNCHANGED roleVars
                 /\ SchedBecomes(schedule_role_removal(cancelled, u,
                                     r.guild_id, r.release_time))
                 /\ RestoreAdvance
       /\ UNCHANGED <<convertVars, fileVars, now, storeVars, sweepVars, banned, temp_bans, banAudit,
                      commands, rearms>>

-----------------------------------------------------------------------------

Next ==
    \/ Tick
    \/ \E u \in Users, d \in Punishments, granted \in BOOLEAN :
           Canada(u, d, granted)
    \/ \E u \in Users, removed \in BOOLEAN : Release(u, removed)
    \/ \E n \in 1..MaxLogs, by \in Durations : Extend(n, by)
    \/ \E n \in 1..MaxLogs, by \in Durations : Reduce(n, by)
    \/ \E n \in 1..MaxLogs : Retract(n)
    \/ \E n \in 1..MaxLogs, u \in Users \cup {NULL} : Edit(n, u)
    \/ \E n \in 1..MaxLogs : Delete(n)
    \/ \E u \in Users, d \in Punishments, ok \in BOOLEAN : TempBan(u, d, ok)
    \/ \E u \in Users, o \in UnbanOutcomes : TempBanCancel(u, o)
    \/ \E i \in Slots, o \in Outcomes : TimerFire(i, o)
    \/ \E i \in Slots, sent \in BOOLEAN : TimerFinish(i, sent)
    \/ \E i \in Slots, o \in UnbanOutcomes : UnbanFire(i, o)
    \/ \E i \in Slots : UnbanFinish(i)
    \/ SweepWake
    \/ SweepRaises
    \/ \E o \in Outcomes : SweepVisit(o)
    \/ SweepRemoved
    \/ SweepNotified
    \/ \E o \in UnbanOutcomes : SweepUnban(o)
    \/ SweepUnbanned
    \/ Restart
    \/ \E o \in RestoreOutcomes : RestoreVisit(o)

Spec == Init /\ [][Next]_vars

-----------------------------------------------------------------------------
(* The process starts on a store left by an earlier run *)

\* The stores a run can leave: up to MaxLogs punishments that are neither
\* completed nor retracted, and at most one temp ban that is not unbanned.
StoredLogs ==
    {<<>>}
    \cup {<<LogEntry(1, 1, ALLOWED_GUILD_ID, u, rt)>> :
              u \in Users, rt \in 1..MaxTime}
    \cup {<<LogEntry(1, 1, ALLOWED_GUILD_ID, u1, rt1),
            LogEntry(2, 2, ALLOWED_GUILD_ID, u2, rt2)>> :
              u1 \in Users, u2 \in Users, rt1 \in 1..MaxTime,
              rt2 \in 1..MaxTime}

StoredBans ==
    {<<>>}
    \cup {create_temp_ban(<<>>, ALLOWED_GUILD_ID, u, 1, ut) :
              u \in Users, ut \in 1..MaxTime}

\* The state in which on_ready has started the sweep and has read the rows
\* of restore_active_punishments: Restart, on any such store.
InitReconcile ==
    LET lost == Sched([i \in Slots |-> NoTask], [u \in Users |-> 0])
    IN /\ now \in 1..MaxTime
       /\ logs \in {L \in StoredLogs : Len(L) <= MaxLogs}
       /\ next_log_id = Len(logs) + 1
       /\ allocated = [i \in 1..Len(logs) |-> logs[i].log_number]
       /\ temp_bans \in StoredBans
       /\ hasRole \in [Users -> BOOLEAN]
       /\ banned \in [Users -> BOOLEAN]
       /\ \A u \in Users : banned[u] => ~hasRole[u]
       /\ roleAudit = [u \in Users |->
                          IF hasRole[u] THEN <<"canada">> ELSE <<>>]
       /\ banAudit = [u \in Users |->
                         IF banned[u] THEN <<"tempban">> ELSE <<>>]
       /\ tasks = lost.T
       /\ scheduled_removals = lost.H
       /\ sweepPc = "sleep"
       /\ sweepList = <<>>
       /\ sweepBans = <<>>
       /\ restoreRows = RowsToRestore(logs, now)
       /\ restorePc = IF restoreRows = <<>> THEN "idle" ELSE "visit"
       /\ LET S == IF restoreRows = <<>>
                   THEN restore_active_temp_bans(
                            lost,
                            get_active_temp_bans(temp_bans, ALLOWED_GUILD_ID))
                   ELSE lost
          IN /\ unbanTasks = S.T
             /\ scheduled_unbans = S.H
       /\ commands = 0
       /\ rearms = <<>>
       /\ ConvertIdle
       /\ FilesIdle

\* The bot runs on its own: no moderator command, no further restart.
NextReconcile ==
    \/ Tick
    \/ \E i \in Slots, o \in Outcomes : TimerFire(i, o)
    \/ \E i \in Slots, sent \in BOOLEAN : TimerFinish(i, sent)
    \/ \E i \in Slots, o \in UnbanOutcomes : UnbanFire(i, o)
    \/ \E i \in Slots : UnbanFinish(i)
    \/ SweepWake
    \/ SweepRaises
    \/ \E o \in Outcomes : SweepVisit(o)
    \/ SweepRemoved
    \/ SweepNotified
    \/ \E o \in UnbanOutcomes : SweepUnban(o)
    \/ SweepUnbanned
    \/ \E o \in RestoreOutcomes : RestoreVisit(o)

\* Time passes; the sweep's "while True: await asyncio.sleep(60)" wakes
\* again and again; a platform call that was issued returns; resolving the
\* member and removing the role, or unbanning, does not fail forever.
\* Nothing is assumed of the timers.
SweepFairness ==
    /\ WF_vars(Tick)
    /\ WF_vars(SweepWake)
    /\ SF_vars(SweepVisit("ok") \/ SweepVisit("not_found"))
    /\ WF_vars(SweepRemoved)
    /\ WF_vars(SweepNotified)
    /\ SF_vars(SweepUnban("ok") \/ SweepUnban("not_found"))
    /\ WF_vars(SweepUnbanned)

Reconcile == InitReconcile /\ [][NextReconcile]_vars /\ SweepFairness

-----------------------------------------------------------------------------
(* Conversions of durations, each applied to inputs of its own *)

MaxPriors == 3

\* Arguments of format_duration: the bounds of its units, values next to
\* them and values between.
SecondsInputs ==
    {0, 30, 59, 60, 90, 3599, 3600, 5400, 86399, 86400, 90000, 604799,
     604800, 700000, 2591999, 2592000, 3000000, 6000000}

\* Entries of the punishment config.
ConfigTexts ==
    {<<"2", "h">>, <<"2", "H">>, <<"1", "h">>, <<"3", "0", "m">>,
     <<"1", "d">>, <<"0", "m">>, <<"1", "w">>, Indefinite}

\* Stores of up to MaxPriors logs of one user, any of them retracted.
PriorStores ==
    UNION {{[i \in 1..k |->
                [LogEntry(i, i, ALLOWED_GUILD_ID, u, NULL)
                     EXCEPT !.retracted = f[i]]] :
              f \in [1..k -> BOOLEAN], u \in Users} : k \in 0..MaxPriors}

\* Rule violations as a moderator enters them.
ViolationTexts ==
    {<<"§", "8">>, <<"§", "§", " ", "2", " ", "a", "n", "d", " ", "3">>,
     <<"s", "p", "a", "m">>, <<"§", " ", "x", "8">>}

\* The keys "temp_ban_rules" may have: rules 8 and 2, each with or without
\* its entry for continued offenses.
RuleKeys == {<<"8">>, <<"8">> \o Continued, <<"2">>, <<"2">> \o Continued}

\* The entry under key k.
RuleInfo(k) ==
    IF Len(k) = 1
    THEN [duration |-> <<"6", "m", "o">>, trigger |-> "first_offense"]
    ELSE [duration |-> <<"1", "w">>, trigger |-> "continued"]

TempBanRules == {[k \in K |-> RuleInfo(k)] : K \in SUBSET RuleKeys}

\* A duration to format, a store and a rule's config to compute the
\* automatic punishment from, or a store, a rule violation and temp ban
\* rules to look a suggestion up in; the bot is idle.
InitConvert ==
    /\ now = 1
    /\ hasRole = [u \in Users |-> FALSE]
    /\ tasks = [i \in Slots |-> NoTask]
    /\ scheduled_removals = [u \in Users |-> 0]
    /\ sweepPc = "sleep"
    /\ sweepList = <<>>
    /\ sweepBans = <<>>
    /\ restorePc = "idle"
    /\ restoreRows = <<>>
    /\ banned = [u \in Users |-> FALSE]
    /\ temp_bans = <<>>
    /\ unbanTasks = [i \in Slots |-> NoTask]
    /\ scheduled_unbans = [u \in Users |-> 0]
    /\ commands = 0
    /\ rearms = <<>>
    /\ roleAudit = [u \in Users |-> <<>>]
    /\ banAudit = [u \in Users |-> <<>>]
    /\ duration_str = <<>>
    /\ parsed = NULL
    /\ reformatted = <<>>
    /\ actual_punishment = <<>>
    /\ actual_seconds = NULL
    /\ suggestion = NoSuggestion
    /\ FilesIdle
    /\ convertPc \in {"format", "calculate", "escalate", "sanction"}
    /\ CASE convertPc = "format" ->
              /\ seconds \in SecondsInputs
              /\ logs = <<>>
              /\ base_time_str = <<>>
              /\ per_prior_str = <<>>
              /\ rule_violation = <<>>
              /\ temp_ban_rules = <<>>
         [] convertPc = "calculate" ->
              /\ seconds = 0
              /\ logs \in PriorStores
              /\ base_time_str \in ConfigTexts
              /\ per_prior_str \in ConfigTexts
              /\ rule_violation = <<>>
              /\ temp_ban_rules = <<>>
         [] convertPc \in {"escalate", "sanction"} ->
              /\ seconds = 0
              /\ logs \in PriorStores
              /\ base_time_str = <<>>
              /\ per_prior_str = <<>>
              /\ rule_violation \in ViolationTexts
              /\ temp_ban_rules \in TempBanRules
    /\ next_log_id = Len(logs) + 1
    /\ allocated = [i \in 1..Len(logs) |-> logs[i].log_number]

\* format_duration(seconds)
FormatDuration ==
    /\ convertPc = "format"
    /\ duration_str' = format_duration(seconds)
    /\ convertPc' = "formatted"
    /\ UNCHANGED <<botVars, fileVars, escalationVars, seconds, parsed, reformatted, base_time_str,
                   per_prior_str, actual_punishment, actual_seconds>>

\* parse_time_duration of the text format_duration has returned
ParseTimeDuration ==
    /\ convertPc = "formatted"
    /\ parsed' = parse_time_duration(duration_str)
    /\ convertPc' = "parsed"
    /\ UNCHANGED <<botVars, fileVars, escalationVars, seconds, duration_str, reformatted,
                   base_time_str, per_prior_str, actual_punishment,
                   actual_seconds>>

\* format_duration of what parse_time_duration has returned
Reformat ==
    /\ convertPc = "parsed"
    /\ reformatted' = format_duration(parsed)
    /\ convertPc' = "reformatted"
    /\ UNCHANGED <<botVars, fileVars, escalationVars, seconds, duration_str, parsed, base_time_str,
                   per_prior_str, actual_punishment, actual_seconds>>

\* canada without a punishment given: "actual_punishment =
\* calculate_automatic_punishment(user.id, interaction.guild.id,
\* rule_violation)"
CalculateAutomatic(u) ==
    /\ convertPc = "calculate"
    /\ actual_punishment' = calculate_automatic_punishment(
           logs, u, ALLOWED_GUILD_ID, base_time_str, per_prior_str)
    /\ convertPc' = "calculated"
    /\ UNCHANGED <<botVars, fileVars, escalationVars, seconds, duration_str, parsed, reformatted,
                   base_time_str, per_prior_str, actual_seconds>>

\* canada: "duration_seconds = parse_time_duration(actual_punishment)"
ParseActual ==
    /\ convertPc = "calculated"
    /\ actual_seconds' = parse_time_duration(actual_punishment)
    /\ convertPc' = "denoted"
    /\ UNCHANGED <<botVars, fileVars, escalationVars, seconds, duration_str, parsed, reformatted,
                   base_time_str, per_prior_str, actual_punishment>>

\* canada: "log_number = create_log(...)", which comes before the check
\* for a temp ban.
CanadaCreatesLog(u) ==
    /\ convertPc = "sanction"
    /\ logs' = create_log(logs, next_log_id, ALLOWED_GUILD_ID, u, NULL)
    /\ next_log_id' = next_log_id + 1
    /\ allocated' = Append(allocated, NextLogNumber(logs, ALLOWED_GUILD_ID))
    /\ convertPc' = "created"
    /\ UNCHANGED <<fileVars, escalationVars, now, roleVars, timerVars,
                   sweepVars, restoreVars, banVars, commands, rearms,
                   seconds, duration_str, parsed, reformatted,
                   base_time_str, per_prior_str, actual_punishment,
                   actual_seconds>>

\* canada: "temp_ban_info = check_temp_ban_applicable(rule_violation,
\* user.id, interaction.guild.id)", on a store as it is or on the store
\* canada has just created its log in.
CheckTempBan(u) ==
    /\ convertPc \in {"escalate", "created"}
    /\ suggestion' = check_temp_ban_applicable(
           temp_ban_rules, logs, rule_violation, u, ALLOWED_GUILD_ID)
    /\ convertPc' = IF convertPc = "escalate" THEN "suggested" ELSE "escalated"
    /\ UNCHANGED <<botVars, fileVars, seconds, duration_str, parsed,
                   reformatted, base_time_str, per_prior_str,
                   actual_punishment, actual_seconds, rule_violation,
                   temp_ban_rules>>

NextConvert ==
    \/ FormatDuration
    \/ ParseTimeDuration
    \/ Reformat
    \/ \E u \in Users : CalculateAutomatic(u)
    \/ ParseActual
    \/ \E u \in Users : CanadaCreatesLog(u)
    \/ \E u \in Users : CheckTempBan(u)

Convert == InitConvert /\ [][NextConvert]_vars

-----------------------------------------------------------------------------
(* The role allow-list: add_allowed_role and remove_allowed_role on       *)
(* ROLES_FILE, with save_json cut at its system calls                     *)

Guilds == {1, 2}
RoleIds == {10, 20}

\* The allow-lists the operations can have written: per guild no key, or
\* a list without repetition that is not empty.
StoredRoles ==
    UNION {[K -> {<<10>>, <<20>>, <<10, 20>>, <<20, 10>>}] :
              K \in SUBSET {Str(g) : g \in Guilds}}

\* Where a store operation is when none is running.
Resting == {"idle", "unchanged", "raised", "saved", "crashed"}

\* The bot is idle; ROLES_FILE holds an allow-list, or does not exist, or
\* is damaged.
InitFiles ==
    /\ now = 1
    /\ logs = <<>>
    /\ next_log_id = 1
    /\ allocated = <<>>
    /\ hasRole = [u \in Users |-> FALSE]
    /\ tasks = [i \in Slots |-> NoTask]
    /\ scheduled_removals = [u \in Users |-> 0]
    /\ sweepPc = "sleep"
    /\ sweepList = <<>>
    /\ sweepBans = <<>>
    /\ restorePc = "idle"
    /\ restoreRows = <<>>
    /\ banned = [u \in Users |-> FALSE]
    /\ temp_bans = <<>>
    /\ unbanTasks = [i \in Slots |-> NoTask]
    /\ scheduled_unbans = [u \in Users |-> 0]
    /\ commands = 0
    /\ rearms = <<>>
    /\ roleAudit = [u \in Users |-> <<>>]
    /\ banAudit = [u \in Users |-> <<>>]
    /\ ConvertIdle
    /\ \E c \in {Json(d) : d \in StoredRoles}
                \cup {Other(k) : k \in {"absent", "empty", "bad_json",
                                        "bad_bytes"}} :
           files = [q \in {ROLES_FILE, temp_path(ROLES_FILE)} |->
                       IF q = ROLES_FILE THEN c ELSE Other("absent")]
    /\ file_lock = "free"
    /\ filePc = "idle"
    /\ data = EmptyDict
    /\ call = NoCall

\* add_allowed_role or remove_allowed_role from its start to its return
\* or to its call of save_json: load_json, in which open ends as opened,
\* then the change of data.
StoreCall(name, guild_id, role_id, opened) ==
    LET r == load_json(files, ROLES_FILE, opened)
        listed == \E i \in 1..Len(RolesOf(r.value, guild_id)) :
                      RolesOf(r.value, guild_id)[i] = role_id
    IN /\ filePc \in Resting
       /\ call' = [name |-> name, guild_id |-> guild_id,
                   role_id |-> role_id, loaded |-> opened = "ok"]
       /\ IF r.raised # ""
          THEN filePc' = "raised" /\ data' = EmptyDict
          ELSE IF (name = "add") = listed
          THEN filePc' = "unchanged" /\ data' = r.value
          ELSE /\ filePc' = "modified"
               /\ data' = Updated(r.value, name, guild_id, role_id)
       /\ UNCHANGED <<botVars, convertVars, files, file_lock>>

AddAllowedRole(guild_id, role_id, opened) ==
    StoreCall("add", guild_id, role_id, opened)

RemoveAllowedRole(guild_id, role_id, opened) ==
    StoreCall("remove", guild_id, role_id, opened)

\* save_json: "with file_lock: ... with open(temp_path, 'w') as f"
SaveOpen ==
    /\ filePc = "modified"
    /\ file_lock' = "held"
    /\ files' = [files EXCEPT ![temp_path(ROLES_FILE)] = Other("partial")]
    /\ filePc' = "opened"
    /\ UNCHANGED <<botVars, convertVars, data, call>>

\* save_json: json.dump(data, f), and the file is closed
SaveDump ==
    /\ filePc = "opened"
    /\ files' = [files EXCEPT ![temp_path(ROLES_FILE)] = Json(data)]
    /\ filePc' = "dumped"
    /\ UNCHANGED <<botVars, convertVars, file_lock, data, call>>

\* save_json: os.replace(temp_path, file_path), the lock is released
SaveReplace ==
    /\ filePc = "dumped"
    /\ files' = [files EXCEPT ![ROLES_FILE] = files[temp_path(ROLES_FILE)],
                              ![temp_path(ROLES_FILE)] = Other("absent")]
    /\ file_lock' = "free"
    /\ filePc' = "saved"
    /\ UNCHANGED <<botVars, convertVars, data, call>>

\* The process dies during a store operation; the next process starts
\* with the files as they are.
Crash ==
    /\ filePc \in {"modified", "opened", "dumped"}
    /\ filePc' = "crashed"
    /\ file_lock' = "free"
    /\ data' = EmptyDict
    /\ UNCHANGED <<botVars, convertVars, files, call>>

NextFiles ==
    \/ \E g \in Guilds, r \in RoleIds, o \in {"ok", "os_error"} :
           AddAllowedRole(g, r, o)
    \/ \E g \in Guilds, r \in RoleIds, o \in {"ok", "os_error"} :
           RemoveAllowedRole(g, r, o)
    \/ SaveOpen
    \/ SaveDump
    \/ SaveReplace
    \/ Crash

Files == InitFiles /\ [][NextFiles]_vars

-----------------------------------------------------------------------------
(* What the properties below speak of *)

\* The live timers of user u among the tasks T.
LiveTimers(T, u) == {i \in Slots : Live(T[i]) /\ T[i].user_id = u}

\* The role removals and the unbans the bot has applied to u since the role
\* was last granted, since u was last banned.
Removals == {"release", "timer", "sweep"}
Reversals(u) == Len(SelectSeq(roleAudit[u], LAMBDA e : e \in Removals))
Unbans(u) == Len(SelectSeq(banAudit[u], LAMBDA e : e # "tempban"))

\* The entries of L that mark_punishment_completed(u, g, rt) could match.
WithKey(L, u, g, rt) ==
    {i \in 1..Len(L) : L[i].user_id = u /\ L[i].guild_id = g
                       /\ L[i].release_time = rt}

\* The ids of the completed entries of L, each with its completed_at.
Completed(L) ==
    {<<L[i].id, L[i].completed_at>> :
        i \in {j \in 1..Len(L) : L[j].completed_at # NULL}}

Ids(L) == {L[i].id : i \in 1..Len(L)}

-----------------------------------------------------------------------------
(* C1 *)

\* C1: in every reachable state each user has at most one live role-removal
\* timer and at most one live unban timer.
C1_OneLiveTimerPerSubject ==
    \A u \in Users :
        /\ Cardinality(LiveTimers(tasks, u)) <= 1
        /\ Cardinality(LiveTimers(unbanTasks, u)) <= 1

-----------------------------------------------------------------------------
(* C2 *)

\* The last two /extend or /reduce commands since the /canada were extends.
ExtendedTwice ==
    /\ Len(rearms) >= 2
    /\ rearms[Len(rearms)].op = "extend"
    /\ rearms[Len(rearms) - 1].op = "extend"
    /\ rearms[Len(rearms)].log_number = rearms[Len(rearms) - 1].log_number

\* An /extend replaces the timer the handle map holds for the user: the
\* old one no longer runs, the new one sleeps until the stored release time.
ExtendReplacesTimer ==
    \A n \in 1..MaxLogs, by \in Durations :
        Extend(n, by) =>
            LET i == get_log(logs, n, ALLOWED_GUILD_ID)
                u == logs[i].user_id
                old == scheduled_removals[u]
                new == scheduled_removals'[u]
                replaced == IF old # 0 /\ Live(tasks[old]) THEN 1 ELSE 0
            IN /\ roleAudit' = roleAudit
               /\ Cardinality(LiveTimers(tasks', u))
                      = Cardinality(LiveTimers(tasks, u)) - replaced + 1
               /\ new # 0
               /\ tasks'[new] = Task(u, ALLOWED_GUILD_ID,
                                     logs[i].release_time + by)
               /\ logs'[i].release_time = logs[i].release_time + by

\* C2: a punishment extended and at once extended again has its role
\* removal applied at most once; each extend replaces the user's timer
\* instead of adding one, and removes nothing itself.
C2_ExtendTwiceOneRemoval ==
    /\ [](ExtendedTwice => \A u \in Users : Reversals(u) <= 1)
    /\ [][ExtendReplacesTimer]_vars

\* Extended twice, and then the timer armed by the second extend has
\* removed the role.
C2_ExtendedTwiceThenRemoved ==
    /\ ExtendedTwice
    /\ \E u \in Users : roleAudit[u] = <<"canada", "timer">>

-----------------------------------------------------------------------------
(* C3 *)

\* C3: on every store the bot can reach, marking a punishment, or a temp
\* ban, completed a second time with the same user, guild and release time
\* changes nothing.
C3_MarkTwiceIsMarkOnce ==
    /\ \A i \in 1..Len(logs) :
           logs[i].release_time # NULL =>
               LET once == mark_punishment_completed(
                               logs, logs[i].user_id, logs[i].guild_id,
                               logs[i].release_time, now)
               IN mark_punishment_completed(
                      once, logs[i].user_id, logs[i].guild_id,
                      logs[i].release_time, now) = once
    /\ \A i \in 1..Len(temp_bans) :
           LET once == mark_temp_ban_completed(
                           temp_bans, temp_bans[i].user_id,
                           temp_bans[i].guild_id, temp_bans[i].unban_time)
           IN mark_temp_ban_completed(
                  once, temp_bans[i].user_id, temp_bans[i].guild_id,
                  temp_bans[i].unban_time) = once

-----------------------------------------------------------------------------
(* C4 *)

\* A completed punishment keeps its completed_at while it is stored; an
\* unbanned temp ban stays unbanned.
CompletedOnce ==
    /\ \A c \in Completed(logs) : c \in Completed(logs') \/ c[1] \notin Ids(logs')
    /\ \A i \in 1..Len(temp_bans) :
           temp_bans[i].unbanned => temp_bans'[i].unbanned

\* When the sweep's remove_roles returns, or the timer's member.send, one
\* punishment with the row's user, guild and release time is completed, if
\* there is one.
ReversalCompletes ==
    /\ SweepRemoved =>
           LET r == Head(sweepList)
               had == WithKey(logs, r.user_id, r.guild_id, r.release_time)
           IN Cardinality(WithKey(logs', r.user_id, r.guild_id,
                                  r.release_time))
                  = IF had = {} THEN 0 ELSE Cardinality(had) - 1
    /\ \A i \in Slots :
           TimerFinish(i, TRUE) =>
               LET t == tasks[i]
                   had == WithKey(logs, t.user_id, t.guild_id, t.release_time)
               IN Cardinality(WithKey(logs', t.user_id, t.guild_id,
                                      t.release_time))
                      = IF had = {} THEN 0 ELSE Cardinality(had) - 1

-----------------------------------------------------------------------------
(* C5 *)

\* Entry i is overdue: its release time has passed and it is not completed.
Overdue(i) ==
    /\ i <= Len(logs)
    /\ logs[i].release_time # NULL
    /\ logs[i].release_time <= now

IsCompleted(i) == i <= Len(logs) /\ logs[i].completed_at # NULL

\* What holds of entry i holds of nothing when the store has no entry i.
Removed(i, counts) == i <= Len(logs) /\ Reversals(logs[i].user_id) \in counts

Held(i) == i <= Len(logs) /\ hasRole[logs[i].user_id]

Alone(i) == i = 1 /\ Len(logs) = 1

\* No timer is armed for entry i: one with its release time is the timer of
\* another entry.
Unarmed(i) ==
    /\ i <= Len(logs)
    /\ \A k \in Slots :
           tasks[k] # NoTask =>
               \/ tasks[k].release_time # logs[i].release_time
               \/ \E j \in 1..Len(logs) :
                      j # i /\ logs[j].release_time = tasks[k].release_time

\* The member left the guild while holding the role.
LeftWithRole(i) ==
    /\ i <= Len(logs)
    /\ LET u == logs[i].user_id
       IN /\ ~hasRole[u]
          /\ roleAudit[u] # <<>>
          /\ roleAudit[u][Len(roleAudit[u])] \notin Removals

-----------------------------------------------------------------------------
(* C6 *)

\* C6: every punishment with a release time gets it cleared, and every temp
\* ban with an unban time gets marked unbanned, by the sweep alone.
C6_EveryRecordResolved ==
    /\ \A i \in 1..MaxLogs :
           (i <= Len(logs) /\ logs[i].release_time # NULL)
               ~> (i <= Len(logs) /\ logs[i].release_time = NULL)
    /\ (Len(temp_bans) >= 1 /\ temp_bans[1].unban_time # NULL)
           ~> (Len(temp_bans) >= 1 /\ temp_bans[1].unbanned)

\* The sweep has unbanned the user and marked the temp ban while the ban's
\* own timer has not run.
C6_SweepResolvedBan ==
    /\ Len(temp_bans) >= 1
    /\ temp_bans[1].unbanned
    /\ banAudit[temp_bans[1].user_id] = <<"tempban", "sweep">>
    /\ \E k \in Slots : unbanTasks[k].pc = "sleeping"

-----------------------------------------------------------------------------
(* C7 *)

\* A successful /release removes the role, completes every punishment of
\* the user that has a release time, and cancels the timer the handle map
\* holds for the user.
ReleaseEnds ==
    \A u \in Users :
        Release(u, TRUE) =>
            /\ ~hasRole'[u]
            /\ roleAudit'[u] = Append(roleAudit[u], "release")
            /\ scheduled_removals'[u] = 0
            /\ scheduled_removals[u] # 0 =>
                   ~Live(tasks'[scheduled_removals[u]])
            /\ get_expired_punishments(
                   SelectSeq(logs', LAMBDA e : e.user_id = u),
                   ALLOWED_GUILD_ID, MaxTime) = <<>>

\* After a /release the bot does not touch the user's role again until a
\* new /canada grants it.
ReleaseIsFinal ==
    \A u \in Users :
        (roleAudit[u] # <<>> /\ roleAudit[u][Len(roleAudit[u])] = "release")
            => roleAudit'[u] \in {roleAudit[u], <<"canada">>}

\* C7: a punishment released by hand has its role removed once in all, by
\* the release; its timer is cancelled and no later sweep finds an overdue
\* record of the user.
C7_ReleasedOnceForAll == [][ReleaseEnds /\ ReleaseIsFinal]_vars

-----------------------------------------------------------------------------
(* C8 *)

\* What a /reduce stores and arms.
ReduceClamps ==
    \A n \in 1..MaxLogs, by \in Durations :
        Reduce(n, by) =>
            LET i == get_log(logs, n, ALLOWED_GUILD_ID)
                u == logs[i].user_id
                new == scheduled_removals'[u]
                overshoots == logs[i].release_time - by < now
            IN /\ logs'[i].release_time >= now
               /\ overshoots => logs'[i].release_time = now
               /\ ~overshoots =>
                      logs'[i].release_time = logs[i].release_time - by
               /\ new # 0
               /\ tasks'[new] = Task(u, ALLOWED_GUILD_ID,
                                     logs'[i].release_time)
               /\ overshoots => Delay(tasks'[new].release_time, now) = 0

\* C8: /reduce never stores a release time before now; a reduction larger
\* than the time left stores now, and the timer it arms has no delay.
C8_ReduceClampsAtNow == [][ReduceClamps]_vars

\* The last /reduce took off more than was left: the record holds the time
\* of the command, and the timer armed for it is due.
C8_ReducedBeyondRemaining ==
    /\ rearms # <<>>
    /\ LET r == rearms[Len(rearms)]
           i == get_log(logs, r.log_number, ALLOWED_GUILD_ID)
       IN /\ r.op = "reduce"
          /\ r.was - r.by < now
          /\ i # 0
          /\ logs[i].release_time = now
          /\ \E k \in Slots :
                 /\ tasks[k] = Task(logs[i].user_id, ALLOWED_GUILD_ID, now)
                 /\ scheduled_removals[logs[i].user_id] = k

-----------------------------------------------------------------------------
(* C9 *)

\* C9 as stated: when restore_active_punishments finds a member without
\* the role, it completes the record and leaves the role alone.
RestoreCompletesUnheld ==
    (/\ restorePc = "visit"
     /\ ~hasRole[Head(restoreRows).user_id]
     /\ RestoreVisit("ok"))
        => LET r == Head(restoreRows)
           IN /\ ~hasRole'[r.user_id]
              /\ logs' = mark_punishment_completed(
                             logs, r.user_id, r.guild_id, r.release_time, now)

C9_UnheldCompletedAtStartup == [][RestoreCompletesUnheld]_vars

\* restore_active_punishments completes nothing and removes nothing; a
\* member it finds without the role gets the role back, and a timer until
\* the release time.
RestoreRegrants ==
    \A o \in RestoreOutcomes, u \in Users :
        (RestoreVisit(o) /\ Head(restoreRows).user_id = u) =>
            LET r == Head(restoreRows)
                new == scheduled_removals'[u]
            IN /\ logs' = logs
               /\ Reversals(u)' = Reversals(u) \/ Reversals(u)' = 0
               /\ (o = "ok" /\ ~hasRole[u]) =>
                      /\ hasRole'[u]
                      /\ roleAudit'[u] = <<"restore">>
                      /\ new # 0
                      /\ tasks'[new] = Task(u, r.guild_id, r.release_time)

\* An overdue record of a member without the role is completed by the
\* sweep, which removes nothing.
SweepCompletesUnheld ==
    (/\ sweepPc = "visit"
     /\ ~hasRole[Head(sweepList).user_id]
     /\ SweepVisit("ok"))
        => LET r == Head(sweepList)
           IN /\ logs' = mark_punishment_completed(
                             logs, r.user_id, r.guild_id, r.release_time, now)
              /\ roleAudit' = roleAudit
              /\ ~hasRole'[r.user_id]

\* C9: at startup a record whose release time is still ahead and whose
\* user lacks the role is not completed: the role is granted again and a
\* timer armed.  A record that is overdue is left to the sweep, which
\* completes it without a removal when the user lacks the role.
C9_UnheldRegrantedOrSwept == [][RestoreRegrants /\ SweepCompletesUnheld]_vars

\* restore_active_punishments has granted the role again, and the timer it
\* armed is waiting.
C9_RestoreRegranted ==
    \E u \in Users :
        /\ roleAudit[u] = <<"restore">>
        /\ hasRole[u]
        /\ scheduled_removals[u] # 0
        /\ tasks[scheduled_removals[u]].pc = "sleeping"

-----------------------------------------------------------------------------
(* C10 *)

\* C10: no two stored logs of a guild have the same log_number.
C10_LogNumbersUnique ==
    \A i, j \in 1..Len(logs) :
        (i # j /\ logs[i].guild_id = logs[j].guild_id)
            => logs[i].log_number # logs[j].log_number

-----------------------------------------------------------------------------
(* C11 *)

\* C11: the log numbers handed out by the successive create_log calls of a
\* guild are strictly increasing, so that no number is handed out twice,
\* whatever was deleted in between.  Stated for the stores that hold no
\* retracted log, where the numbering does not meet the case of C10.
C11_LogNumbersIncrease ==
    (\A k \in 1..Len(logs) : ~logs[k].retracted)
        => \A i, j \in 1..Len(allocated) : i < j => allocated[i] < allocated[j]

-----------------------------------------------------------------------------
(* C12 *)

\* L without its entry i.
Without(L, i) == SubSeq(L, 1, i - 1) \o SubSeq(L, i + 1, Len(L))

\* Entry i of the store has no part in the active and overdue queries, and
\* get_log on its number returns it, flagged.
OutOfQueries(i) ==
    /\ logs[i].release_time = NULL
    /\ get_active_punishments(logs, ALLOWED_GUILD_ID)
           = get_active_punishments(Without(logs, i), ALLOWED_GUILD_ID)
    /\ get_active_punishments(logs, NULL)
           = get_active_punishments(Without(logs, i), NULL)
    /\ \A t \in 1..MaxTime :
           get_expired_punishments(logs, ALLOWED_GUILD_ID, t)
               = get_expired_punishments(Without(logs, i),
                                         ALLOWED_GUILD_ID, t)
    /\ get_log(logs, logs[i].log_number, logs[i].guild_id) = i
    /\ logs[i].retracted

\* A /retract on a log that is not retracted retracts that log, whatever
\* its release time was, and changes no other log.
RetractRetracts ==
    \A n \in 1..MaxLogs :
        (Retract(n) /\ ~logs[get_log(logs, n, ALLOWED_GUILD_ID)].retracted)
            => LET i == get_log(logs, n, ALLOWED_GUILD_ID)
               IN /\ Len(logs') = Len(logs)
                  /\ logs'[i].retracted
                  /\ logs'[i].release_time = NULL
                  /\ \A j \in 1..Len(logs) : j # i => logs'[j] = logs[j]

\* C12: a retracted record has no release time, appears in no active and no
\* overdue query, and is what get_log returns for its number, flagged as
\* retracted, for as long as it is retracted.
C12_RetractedOutOfQueries ==
    /\ [](\A i \in 1..Len(logs) : logs[i].retracted => OutOfQueries(i))
    /\ [][RetractRetracts]_vars

\* A punishment was retracted while its timer was sleeping, and the time
\* the timer waits for has come: the record would be overdue by now.
C12_RetractedPastRelease ==
    \E i \in 1..Len(logs), k \in Slots :
        /\ logs[i].retracted
        /\ tasks[k].pc = "sleeping"
        /\ tasks[k].user_id = logs[i].user_id
        /\ tasks[k].release_time <= now
        /\ get_expired_punishments(logs, ALLOWED_GUILD_ID, now) = <<>>
        /\ Len(logs) = 1

-----------------------------------------------------------------------------
(* C13 *)

\* After a punishment of the pass that could not be handled (the member
\* could not be fetched, or remove_roles raised) the pass is at its next
\* punishment, or, after the last, at the expired temp bans.
FailedVisitGoesOn ==
    \A o \in {"fetch_error", "remove_error"} :
        SweepVisit(o) =>
            IF Tail(sweepList) # <<>>
            THEN /\ sweepPc' = "visit"
                 /\ sweepList' = Tail(sweepList)
                 /\ sweepBans' = sweepBans
            ELSE /\ sweepBans' = get_expired_temp_bans(
                                     temp_bans, ALLOWED_GUILD_ID, now)
                 /\ sweepPc' = IF sweepBans' = <<>> THEN "sleep" ELSE "unban"

\* After a temp ban of the pass that could not be lifted the pass is at its
\* next ban, if there is one.
FailedUnbanGoesOn ==
    SweepUnban("error") =>
        /\ sweepBans' = Tail(sweepBans)
        /\ sweepPc' = IF Tail(sweepBans) = <<>> THEN "sleep" ELSE "unban"

\* C13: a failure on one overdue record of a sweep pass leaves every
\* remaining punishment and temp ban of the pass to be processed.
C13_FailureLeavesRest == [][FailedVisitGoesOn /\ FailedUnbanGoesOn]_vars

\* A pass over two overdue punishments: the first is still overdue, so its
\* visit failed, and the sweep has removed the role for the second.
C13_SecondProcessedAfterFailure ==
    /\ Len(logs) = 2
    /\ logs[1].release_time # NULL
    /\ logs[2].release_time # NULL
    /\ logs[1].release_time < logs[2].release_time
    /\ sweepPc = "removing"
    /\ sweepList = <<Row(logs[2])>>

-----------------------------------------------------------------------------
(* C14 *)

\* C14: the sweep never stops.  Every pass comes to its end, whatever
\* happens to its records; after a pass that was cut short by an exception
\* outside the handling of a single record the loop sleeps and wakes again;
\* and the sweep is always at one of the positions of its loop.
C14_SweepNeverStops ==
    /\ [](sweepPc \in {"sleep", "failed", "visit", "removing", "notify",
                       "unban", "unbanned"})
    /\ (sweepPc \notin {"sleep", "failed"}) ~> (sweepPc \in {"sleep", "failed"})
    /\ (sweepPc = "failed") ~> (sweepPc # "failed")
    /\ [][sweepPc = "failed" /\ sweepPc' # "failed" => SweepWake]_vars

\* An iteration of the sweep has raised while an overdue punishment and an
\* overdue temp ban wait for it.
C14_RaisedWithWorkWaiting ==
    /\ sweepPc = "failed"
    /\ get_expired_punishments(logs, ALLOWED_GUILD_ID, now) # <<>>
    /\ get_expired_temp_bans(temp_bans, ALLOWED_GUILD_ID, now) # <<>>

-----------------------------------------------------------------------------
(* C15 *)

\* A role-removal timer that finds the member gone, or without the role,
\* removes nothing, completes one punishment with its user, guild and
\* release time if there is one, and ends.
TimerCompletesUnheld ==
    \A i \in Slots, u \in Users :
        (/\ tasks[i].pc = "sleeping"
         /\ tasks[i].user_id = u
         /\ \/ TimerFire(i, "not_found")
            \/ ~hasRole[u] /\ TimerFire(i, "ok"))
            => LET t == tasks[i]
                   had == WithKey(logs, u, t.guild_id, t.release_time)
               IN /\ roleAudit' = roleAudit
                  /\ ~hasRole'[u]
                  /\ Cardinality(WithKey(logs', u, t.guild_id,
                                         t.release_time))
                         = IF had = {} THEN 0 ELSE Cardinality(had) - 1
                  /\ \A j \in had :
                         logs'[j].release_time = NULL
                             => logs'[j].completed_at = now
                  /\ ~Live(tasks'[i])

\* An unban timer that finds the user not banned, or unknown, unbans
\* nobody, marks the temp ban unbanned, and ends.
UnbanTimerCompletesUnheld ==
    \A i \in Slots :
        (unbanTasks[i].pc = "sleeping" /\ UnbanFire(i, "not_found"))
            => LET t == unbanTasks[i]
               IN /\ banAudit' = banAudit
                  /\ banned' = banned
                  /\ get_temp_ban_for_user(temp_bans', t.user_id,
                                           t.guild_id) = 0
                     \/ temp_bans'[get_temp_ban_for_user(
                            temp_bans', t.user_id, t.guild_id)].unban_time
                            # t.unban_time
                  /\ ~Live(unbanTasks'[i])

\* C15: a timer that fires for a subject who lacks the sanction, or who
\* cannot be found, applies no reversal and still marks the record
\* completed, so that no later sweep or timer finds it.
C15_UnheldStillCompleted ==
    [][TimerCompletesUnheld /\ UnbanTimerCompletesUnheld]_vars

\* While the sweep waits for remove_roles to return, the record's timer
\* has fired, found the member gone, and completed the record: the handle
\* map still holds the finished task.
C15_TimerFoundMemberGone ==
    /\ sweepPc = "removing"
    /\ LET r == Head(sweepList)
           h == scheduled_removals[r.user_id]
       IN /\ h # 0
          /\ tasks[h].pc = "done"
          /\ tasks[h].release_time = r.release_time
          /\ WithKey(logs, r.user_id, r.guild_id, r.release_time) = {}
          /\ \E i \in 1..Len(logs) :
                 logs[i].user_id = r.user_id /\ logs[i].completed_at # NULL

-----------------------------------------------------------------------------
(* C16 *)

\* add_roles or user.ban raising after create_log: the log is in the
\* store, active, and nothing was granted, banned or armed.
ApplyErrorKeepsRecord ==
    \A u \in Users, d \in Punishments :
        (Canada(u, d, FALSE) \/ TempBan(u, d, FALSE))
            => /\ Len(logs') = Len(logs) + 1
               /\ SubSeq(logs', 1, Len(logs)) = logs
               /\ logs'[Len(logs')].user_id = u
               /\ logs'[Len(logs')].completed_at = NULL
               /\ ~logs'[Len(logs')].retracted
               /\ UNCHANGED <<hasRole, banned, temp_bans, timerVars>>

\* The steps in which remove_roles or guild.unban raises an error other
\* than NotFound, in a timer, in the sweep and in /release.
RevokeError(u) ==
    \/ \E i \in Slots : tasks[i].pc = "sleeping" /\ tasks[i].user_id = u
                        /\ TimerFire(i, "remove_error")
    \/ sweepPc = "visit" /\ Head(sweepList).user_id = u
                         /\ SweepVisit("remove_error")
    \/ Release(u, FALSE)

\* The active records of user u.
ActiveOf(L, u) ==
    {i \in 1..Len(L) : /\ L[i].user_id = u
                       /\ L[i].release_time # NULL
                       /\ L[i].completed_at = NULL}

\* A failed revocation leaves the store as it was and the role held.
RevokeErrorLeavesActive ==
    \A u \in Users :
        RevokeError(u) => /\ logs' = logs
                          /\ hasRole'[u]
                          /\ roleAudit' = roleAudit

\* A failed unban, in a timer or in the sweep, leaves the temp ban active.
UnbanErrorLeavesActive ==
    ((\E i \in Slots : unbanTasks[i].pc = "sleeping" /\ UnbanFire(i, "error"))
        \/ (sweepPc = "unban" /\ SweepUnban("error")))
        => temp_bans' = temp_bans /\ banned' = banned

RevokeErrorCompletes ==
    \A u \in Users :
        (RevokeError(u) /\ ActiveOf(logs, u) # {})
            => ActiveOf(logs', u) # ActiveOf(logs, u)

-----------------------------------------------------------------------------
(* C17 *)

\* The user's key in handle map S.H holds no task that is still running:
\* there is no key, or its task has ended.
NoLiveHandle(S, u) == S.H[u] = 0 \/ ~Live(S.T[S.H[u]])

\* Cancelling leaves every running task running and every other key.
CancelSpares(S, R, u) ==
    /\ \A i \in Slots : Live(S.T[i]) => R.T[i] = S.T[i]
    /\ \A v \in Users \ {u} : R.H[v] = S.H[v]

\* Cancelling for a user without a running handle stops no task and
\* leaves the user without a key: a key that held an ended task is
\* deleted, a user without a key is left as they were.
CancelDropsDeadKey ==
    \A u \in Users :
        /\ NoLiveHandle(Now, u)
               => LET R == cancel_scheduled_removal(Now, u)
                  IN /\ CancelSpares(Now, R, u)
                     /\ R.H[u] = 0
                     /\ scheduled_removals[u] = 0 => R = Now
        /\ NoLiveHandle(BansNow, u)
               => LET R == cancel_temp_unban(BansNow, u)
                  IN /\ CancelSpares(BansNow, R, u)
                     /\ R.H[u] = 0
                     /\ scheduled_unbans[u] = 0 => R = BansNow

\* /release of a user without a running handle: the cancellation in it
\* stops no task and leaves the user without a key.
ReleaseDropsDeadKey ==
    \A u \in Users :
        (NoLiveHandle(Now, u) /\ Release(u, TRUE))
            => /\ \A i \in Slots : Live(tasks[i]) => tasks'[i] = tasks[i]
               /\ scheduled_removals'[u] = 0

-----------------------------------------------------------------------------
(* C18 *)

\* The steps that call cancel() on the handle of user u: /release, /extend
\* and /reduce of a log of u, and the sweep after its visit of u.
CancelSite(u) ==
    \/ Release(u, TRUE)
    \/ \E n \in 1..MaxLogs, by \in Durations :
           /\ get_log(logs, n, ALLOWED_GUILD_ID) # 0
           /\ logs[get_log(logs, n, ALLOWED_GUILD_ID)].user_id = u
           /\ Extend(n, by) \/ Reduce(n, by)
    \/ /\ sweepPc \in {"visit", "notify"}
       /\ Head(sweepList).user_id = u
       /\ \/ SweepVisit("remove_error")
          \/ ~hasRole[u] /\ SweepVisit("ok")
          \/ SweepNotified

\* The number of role removals by timers recorded for u.
TimerRemovals(A, u) == Len(SelectSeq(A[u], LAMBDA e : e = "timer"))

\* A timer cancelled in its sleep is gone with the step that cancels it:
\* the step removes no role in its name, and the slot is empty or holds
\* the timer the same step has armed.
CancelStopsSleeper ==
    \A u \in Users, i \in Slots :
        (/\ scheduled_removals[u] = i
         /\ tasks[i].pc = "sleeping"
         /\ CancelSite(u))
            => /\ TimerRemovals(roleAudit', u) = TimerRemovals(roleAudit, u)
               /\ \/ tasks'[i] = NoTask
                  \/ /\ scheduled_removals'[u] = i
                     /\ tasks'[i].pc = "sleeping"
                     /\ \E j \in 1..Len(logs') :
                            /\ logs'[j].user_id = u
                            /\ logs'[j].release_time = tasks'[i].release_time
               /\ Cardinality(LiveTimers(tasks', u))
                      = Cardinality(LiveTimers(tasks, u)) - 1
                            + (IF scheduled_removals'[u] # 0 THEN 1 ELSE 0)

\* Only a timer that is there does a timer's work: a role removal in a
\* timer's name is the step of a sleeping task that wakes, and a timer's
\* mark is the step of a task that is awake.
OnlyLiveTimersRun ==
    \A u \in Users :
        TimerRemovals(roleAudit', u) > TimerRemovals(roleAudit, u)
            => \E i \in Slots : /\ tasks[i].pc = "sleeping"
                                /\ tasks[i].user_id = u
                                /\ TimerFire(i, "ok")

\* C18: a timer cancelled while it waits for its release time never runs
\* its body: no role removal and no mark completed comes from it, in the
\* cancelling step or later.
C18_CancelledSleeperNeverRuns ==
    [][CancelStopsSleeper /\ OnlyLiveTimersRun]_vars

\* A member punished for a time at the start was released at once, which
\* cancelled the timer; the time the timer slept for has long passed and
\* no timer has acted.
C18_ReleasedBeforeTimerDue ==
    /\ Len(logs) = 1
    /\ logs[1].completed_at = 1
    /\ rearms = <<>>
    /\ now = MaxTime
    /\ roleAudit[logs[1].user_id] = <<"canada", "release">>
    /\ \A i \in Slots : tasks[i] = NoTask

-----------------------------------------------------------------------------
(* C19 *)

\* C19: for s in {30, 3600, 90000, 700000, 3000000}, formatting what
\* parse_time_duration makes of format_duration(s) gives the text of
\* format_duration(s) again.
C19_FormatParseFixpoint ==
    (convertPc = "reformatted"
        /\ seconds \in {30, 3600, 90000, 700000, 3000000})
        => reformatted = duration_str

-----------------------------------------------------------------------------
(* C20 *)

\* C20: with a base that is not indefinite, the automatic punishment
\* denotes base + n * increment seconds, n being the user's logs of the
\* guild that are not retracted; a base and an increment of 2h give 2h,
\* 4h and 6h for n = 0, 1, 2.
C20_AutomaticIsBasePlusPriors ==
    convertPc = "denoted" =>
        \A u \in Users :
            LET base == parse_time_duration(base_time_str)
                increment == parse_time_duration(per_prior_str)
                n == get_punishment_count(logs, u, ALLOWED_GUILD_ID)
            IN /\ (base # NULL /\ increment # NULL)
                      => actual_seconds = base + n * increment
               /\ (base_time_str = <<"2", "h">>
                       /\ per_prior_str = <<"2", "h">> /\ n \in 0..2)
                      => actual_punishment = <<Str(2 + 2 * n)[1], "h">>

-----------------------------------------------------------------------------
(* C21 *)

\* C21: for a user with a prior offense and a rule whose key with
\* "_continued" is in the temp ban rules, the suggestion is the one for
\* continued offenses, whether or not the rule has an entry of its own.
C21_ContinuedSupersedesBase ==
    convertPc = "suggested" =>
        \A u \in Users :
            LET rule_num == extract_rule_number(rule_violation)
                continued_key == rule_num \o Continued
            IN (/\ rule_num # <<>>
                /\ get_punishment_count(logs, u, ALLOWED_GUILD_ID) >= 1
                /\ continued_key \in DOMAIN temp_ban_rules)
                   => /\ suggestion.rule_key = continued_key
                      /\ suggestion.duration
                             = temp_ban_rules[continued_key].duration

-----------------------------------------------------------------------------
(* C22 *)

\* The allow-list ROLES_FILE holds for guild g.
Listed(F, g) == RolesOf(F[ROLES_FILE].data, g)

\* A change of ROLES_FILE leaves the list of every guild but the one the
\* operation was called for as it was.
OtherGuildsKept ==
    files'[ROLES_FILE] # files[ROLES_FILE]
        => \A g \in Guilds \ {call.guild_id} :
               Listed(files', g) = Listed(files, g)

WholeContentReplaced ==
    files'[ROLES_FILE] # files[ROLES_FILE]
        => /\ filePc = "dumped" /\ filePc' = "saved"
           /\ files'[ROLES_FILE] = Json(data)

C23_ReaderSeesWholeContent ==
    /\ [](files[ROLES_FILE].kind # "partial")
    /\ [][WholeContentReplaced]_vars

\* the process died while the temporary file was partly written, and the
\* store file still holds the lists it held before
C23_CrashedWhileWriting ==
    /\ filePc = "crashed"
    /\ files[temp_path(ROLES_FILE)].kind = "partial"
    /\ files[ROLES_FILE].kind = "json"
    /\ files[ROLES_FILE].data # data


(***************************************************************************)
(* C24  A store read-modify-write holds file_lock without a break from    *)
(* its read to its write: between the return of load_json and the end of  *)
(* save_json the lock is held, so that no other store operation on the    *)
(* file can run in between.                                               *)
(***************************************************************************)
C24_LockHeldFromReadToWrite ==
    filePc \in {"modified", "opened", "dumped"} => file_lock = "held"


(***************************************************************************)
(* C25  Loading a store file that is corrupt or cannot be read yields the  *)
(* empty state and no error reaches the caller: the store operation that   *)
(* loaded it goes on as it does on an empty store.                         *)
(***************************************************************************)
LoadsUnreadable ==
    /\ filePc \in Resting
    /\ filePc' \in {"raised", "unchanged", "modified"}
    /\ \/ files[ROLES_FILE].kind \in {"bad_json", "bad_bytes"}
       \/ files[ROLES_FILE].kind # "absent" /\ ~call'.loaded

UnreadableLoadsAsEmpty ==
    LoadsUnreadable
        => /\ filePc' # "raised"
           /\ data' = Updated(EmptyDict, call'.name, call'.guild_id,
                              call'.role_id)

C25_UnreadableLoadsAsEmpty == [][UnreadableLoadsAsEmpty]_vars


(***************************************************************************)
(* C26  At every instant each punishment record is in exactly one of four  *)
(* states: indefinite (release_time is null), active (release_time in the  *)
(* future), overdue (release_time in the past and completed_at null),      *)
(* done (completed_at not null).                                           *)
(***************************************************************************)
\* The states of the list that describe entry e at time t, as the list
\* words them.
StatesAsWorded(e, t) ==
    {s \in {"indefinite", "active", "overdue", "done"} :
        \/ s = "indefinite" /\ e.release_time = NULL
        \/ s = "active" /\ e.release_time # NULL /\ e.release_time > t
        \/ s = "overdue" /\ e.release_time # NULL /\ e.release_time <= t
                         /\ e.completed_at = NULL
        \/ s = "done" /\ e.completed_at # NULL}

\* The same with indefinite kept to entries that are not completed.
StatesOf(e, t) ==
    StatesAsWorded(e, t)
        \ (IF e.completed_at # NULL THEN {"indefinite"} ELSE {})

C26_ExactlyOneStateAsWorded ==
    \A i \in 1..Len(logs) : Cardinality(StatesAsWorded(logs[i], now)) = 1

C26_ExactlyOneState ==
    \A i \in 1..Len(logs) : Cardinality(StatesOf(logs[i], now)) = 1

\* a completed entry beside an overdue one
C26_DoneBesideOverdue ==
    \E i, j \in 1..Len(logs) :
        /\ StatesOf(logs[i], now) = {"done"}
        /\ StatesOf(logs[j], now) = {"overdue"}


(***************************************************************************)
(* C27  parse_time_duration has three outcomes a caller can tell apart:    *)
(* seconds for digits followed by one unit, the indefinite marker for      *)
(* "indefinite", and for any other text an error value that differs from   *)
(* the indefinite marker.                                                  *)
(***************************************************************************)
\* Digits followed by one of the units mo, w, d, h, m.
IsDurationText(t) ==
    LET low == Lower(t)
        k == LeadingDigits(low)
    IN /\ k > 0
       /\ SubSeq(low, k + 1, Len(low))
              \in {<<"m", "o">>, <<"w">>, <<"d">>, <<"h">>, <<"m">>}

\* result is an outcome of parsing t that tells what kind of text t is.
TellsApart(t, result) ==
    CASE Lower(t) = Indefinite -> result = parse_time_duration(Indefinite)
      [] IsDurationText(t) -> result \in Nat
      [] OTHER -> result \notin Nat
                  /\ result # parse_time_duration(Indefinite)

C27_ThreeOutcomesToldApart ==
    /\ convertPc \in {"parsed", "reformatted"}
           => TellsApart(duration_str, parsed)
    /\ convertPc = "denoted" => TellsApart(actual_punishment, actual_seconds)


(***************************************************************************)
(* C28  When the firing of a timer ends, on whichever path, the timer's    *)
(* handle is discarded: scheduled_removals and scheduled_unbans never hold *)
(* the handle of a timer that has finished.                                *)
(***************************************************************************)
C28_NoHandleOfFinishedTimer ==
    \A u \in Users :
        /\ scheduled_removals[u] # 0
               => tasks[scheduled_removals[u]].pc # "done"
        /\ scheduled_unbans[u] # 0
               => unbanTasks[scheduled_unbans[u]].pc # "done"


(***************************************************************************)
(* C29  After /extend or /reduce of a record, the record's user has        *)
(* exactly one live role-removal timer, and that timer sleeps until the    *)
(* release_time the record now holds.                                      *)
(***************************************************************************)
RearmLeavesOneTimer ==
    \A n \in 1..MaxLogs, by \in Durations :
        Extend(n, by) \/ Reduce(n, by) =>
            LET i == get_log(logs, n, ALLOWED_GUILD_ID)
                u == logs[i].user_id
            IN \E k \in Slots :
                   /\ LiveTimers(tasks', u) = {k}
                   /\ tasks'[k].release_time = logs'[i].release_time

C29_OneTimerAtStoredRelease == [][RearmLeavesOneTimer]_vars


(***************************************************************************)
(* C30  Once completed_at of a record is set, the record's release_time   *)
(* is null and stays null, and its completed_at is never written again,    *)
(* whatever /extend, /reduce, /edit, /retract, /release, sweep and timer   *)
(* do afterwards.                                                          *)
(***************************************************************************)
CompletedIsFinal ==
    \A i \in 1..Len(logs), j \in 1..Len(logs') :
        logs[i].completed_at # NULL /\ logs'[j].id = logs[i].id
            => /\ logs'[j].release_time = NULL
               /\ logs'[j].completed_at = logs[i].completed_at

C30_CompletedStaysCleared ==
    /\ [](\A i \in 1..Len(logs) :
              logs[i].completed_at # NULL => logs[i].release_time = NULL)
    /\ [][CompletedIsFinal]_vars

\* a record was completed, and a later punishment of the same user has
\* been handled and completed after it
C30_CompletedThenHandledAgain ==
    \E i, j \in 1..Len(logs) :
        /\ logs[i].completed_at # NULL
        /\ logs[j].completed_at # NULL
        /\ logs[i].completed_at < logs[j].completed_at
        /\ logs[i].user_id = logs[j].user_id


(***************************************************************************)
(* C31  Every live timer that scheduled_removals holds belongs to a user   *)
(* with a stored record that is not retracted and has a release_time: once *)
(* a record is retracted or deleted, no live timer is left that would      *)
(* remove the role for it.                                                 *)
(***************************************************************************)
C31_LiveTimerHasTimedRecord ==
    \A u \in Users :
        (scheduled_removals[u] # 0 /\ Live(tasks[scheduled_removals[u]]))
            => \E i \in 1..Len(logs) :
                   /\ logs[i].user_id = u
                   /\ ~logs[i].retracted
                   /\ logs[i].release_time # NULL


(***************************************************************************)
(* C32  A punishment created with a duration, 0 included, is stored with   *)
(* release_time = start + duration; only "indefinite" gives a record with  *)
(* a null release_time.                                                    *)
(***************************************************************************)
CanadaStoresRelease ==
    \A u \in Users, d \in Punishments, granted \in BOOLEAN :
        Canada(u, d, granted) =>
            LET e == logs'[Len(logs')]
            IN IF d = NULL THEN e.release_time = NULL
               ELSE e.release_time = now + d

C32_DurationGivesReleaseTime == [][CanadaStoresRelease]_vars


(***************************************************************************)
(* C33  A temp ban is marked unbanned and its timer cancelled only when    *)
(* guild.unban succeeded or reported the user not found: when the unban of *)
(* /tempban_cancel fails, the record stays active and the unban timer      *)
(* stays armed.                                                            *)
(***************************************************************************)
FailedCancelKeepsBan ==
    \A u \in Users :
        (banned[u] /\ TempBanCancel(u, "error"))
            => /\ temp_bans' = temp_bans
               /\ unbanTasks' = unbanTasks
               /\ scheduled_unbans' = scheduled_unbans

C33_FailedCancelKeepsBan == [][FailedCancelKeepsBan]_vars


(***************************************************************************)
(* C34  The check for a temp ban that runs while a punishment is created   *)
(* counts only the offenses the user had before that punishment: it        *)
(* suggests what it would suggest on the store without the new log, and a  *)
(* user's first offense never gets a "continued" suggestion.               *)
(***************************************************************************)
\* The store before canada created its log.
StoreBefore == SubSeq(logs, 1, Len(logs) - 1)

C34_CountsPriorOffensesOnly ==
    convertPc = "escalated" =>
        LET u == logs[Len(logs)].user_id
        IN /\ suggestion = check_temp_ban_applicable(
                  temp_ban_rules, StoreBefore, rule_violation, u,
                  ALLOWED_GUILD_ID)
           /\ get_punishment_count(StoreBefore, u, ALLOWED_GUILD_ID) = 0
                  => suggestion.trigger # "continued"


(***************************************************************************)
(* C35  After /extend has succeeded on a punishment, the bot does not      *)
(* remove the user's role before the new release_time, however the extend  *)
(* interleaves with a timer that has begun to fire or with a pass of the   *)
(* sweep over the same record.                                             *)
(***************************************************************************)
\* The timer or the sweep removes the role of u in this step.
BotRemoves(u) ==
    /\ Len(roleAudit'[u]) = Len(roleAudit[u]) + 1
    /\ roleAudit'[u][Len(roleAudit'[u])] \in {"timer", "sweep"}

NoRemovalBeforeExtended ==
    \A u \in Users :
        (BotRemoves(u) /\ rearms # <<>>) =>
            LET r == rearms[Len(rearms)]
                i == get_log(logs, r.log_number, ALLOWED_GUILD_ID)
            IN (/\ r.op = "extend"
                /\ i # 0
                /\ logs[i].user_id = u
                /\ logs[i].release_time # NULL)
                   => logs[i].release_time <= now

C35_NoRemovalBeforeExtendedRelease == [][NoRemovalBeforeExtended]_vars


(***************************************************************************)
(* C36  During the restore after a restart, a platform failure on one      *)
(* record (add_roles raising) does not keep the remaining punishment       *)
(* records and the temp bans from being restored: the loop goes on to its  *)
(* next row, and after the last row the unban timers of the active temp    *)
(* bans are armed.                                                         *)
(***************************************************************************)
FailedRestoreGoesOn ==
    RestoreVisit("add_error") =>
        IF Tail(restoreRows) # <<>>
        THEN restoreRows' = Tail(restoreRows) /\ restorePc' = "visit"
        ELSE LET S == restore_active_temp_bans(
                          BansNow,
                          get_active_temp_bans(temp_bans, ALLOWED_GUILD_ID))
             IN unbanTasks' = S.T /\ scheduled_unbans' = S.H

C36_RestoreSurvivesFailure == [][FailedRestoreGoesOn]_vars


(***************************************************************************)
(* C37  When /release fails because the platform rejects the removal of    *)
(* the role, the store and the handle map are left as they were: the       *)
(* user's record stays active with its release_time and its timer stays    *)
(* armed.                                                                  *)
(***************************************************************************)
FailedReleaseKeepsAll ==
    \A u \in Users :
        Release(u, FALSE) =>
            /\ logs' = logs
            /\ tasks' = tasks
            /\ scheduled_removals' = scheduled_removals
            /\ hasRole'[u]

C37_FailedReleaseKeepsAll == [][FailedReleaseKeepsAll]_vars

\* a command that followed the /canada has left the user in the role, the
\* record active with its release time and the timer asleep for that time
C37_StillPunishedAfterCommand ==
    \E u \in Users :
        /\ commands = 2
        /\ rearms = <<>>
        /\ roleAudit[u] = <<"canada">>
        /\ hasRole[u]
        /\ Len(logs) = 1
        /\ logs[1].user_id = u
        /\ ~logs[1].retracted
        /\ logs[1].release_time # NULL
        /\ logs[1].completed_at = NULL
        /\ scheduled_removals[u] # 0
        /\ tasks[scheduled_removals[u]]
               = Task(u, ALLOWED_GUILD_ID, logs[1].release_time)

====
